---------------------------- MODULE Spec2Model ----------------------------
(***************************************************************************)
(* A model of the multi-tenant ticketing backend: tenant resolution        *)
(* (identifyOrganization), the access-control guards, and the ticket route *)
(* handlers with category auto-assignment.                                 *)
(*                                                                         *)
(* Strings that the code inspects character by character (Host header,     *)
(* organization slugs) are sequences of one-character strings.             *)
(***************************************************************************)
EXTENDS Integers, Sequences, FiniteSets, TLC

VARIABLES
    nRaw, nOnce, nTwice, nPhase,    \* SpecNorm: a raw slug and its normalizations
    mainAppHost,                    \* process.env.MAIN_APP_HOST
    organizations,                  \* the organizations table, in the store's scan order
    rq, rs, rs2, rPhase,            \* SpecResolve: a request and the middleware's outcome
    memberships,                    \* user_organizations rows, oldest createdAt first
    categories,                     \* categories rows
    assignments,                    \* user_category_assignments rows, in the order findMany returns them
    tickets, comments, attachments, timeEntries,
    activityLogs,                   \* the ids of the tickets that have activity_logs rows
    nextId,                         \* the next fresh id of each table
    resp,                           \* the response to the request in flight, NoResp between requests
    users,                          \* the users table
    statuses,                       \* ticket_statuses rows
    passwordResets,                 \* the emails that have password_resets rows
    loginOTPs,                      \* login_otps rows, oldest createdAt first
    notifications,                  \* notifications rows, as written by the handlers that run in steps
    inflight,                       \* the requests suspended at an await, by connection
    mail,                           \* the promises of the email sends of the request in flight
    waiting                         \* the response a handler sends once the send it awaits settles

normVars == <<nRaw, nOnce, nTwice, nPhase>>
resolveVars == <<rq, rs, rs2, rPhase>>
configVars == <<mainAppHost, organizations>>
storeVars == <<memberships, categories, assignments, tickets, comments,
               attachments, timeEntries, activityLogs, nextId>>

accountVars == <<users, statuses, passwordResets, loginOTPs, notifications>>
sideVars == <<accountVars, inflight, mail, waiting>>

vars == <<nRaw, nOnce, nTwice, nPhase, mainAppHost, organizations,
          rq, rs, rs2, rPhase, memberships, categories, assignments, tickets,
          comments, attachments, timeEntries, activityLogs, nextId, resp,
          users, statuses, passwordResets, loginOTPs, notifications, inflight, mail,
          waiting>>

None == "none"
Absent == "absent"                  \* a body field that is undefined

(***************************************************************************)
(* Bounds of the model.                                                    *)
(***************************************************************************)
MaxRawLen == 3

(***************************************************************************)
(* Characters.  LowerLetters, UpperLetters and Digits are the letters and  *)
(* digits that occur in the model's inputs; every other character is       *)
(* outside [a-z0-9-] after lowercasing.                                    *)
(***************************************************************************)
LowerLetters == {"a", "b", "c", "h", "i", "l", "o", "s", "t", "w", "x", "z"}
UpperLetters == {"A", "B", "C"}
Digits == {"1"}
Whitespace == {" "}
Hyphen == "-"

\* String.prototype.toLowerCase, one character
LowerChar(c) ==
    CASE c = "A" -> "a"
      [] c = "B" -> "b"
      [] c = "C" -> "c"
      [] OTHER -> c

ToLowerCase(s) == [i \in 1..Len(s) |-> LowerChar(s[i])]

\* String.prototype.trim: drop leading and trailing whitespace
RECURSIVE TrimStart(_)
TrimStart(s) ==
    IF s # <<>> /\ Head(s) \in Whitespace THEN TrimStart(Tail(s)) ELSE s

RECURSIVE TrimEnd(_)
TrimEnd(s) ==
    IF s # <<>> /\ s[Len(s)] \in Whitespace
    THEN TrimEnd(SubSeq(s, 1, Len(s) - 1))
    ELSE s

Trim(s) == TrimEnd(TrimStart(s))

\* the character class [a-z0-9-]
SlugChars == LowerLetters \cup Digits \cup {Hyphen}

\* .replace(/[^a-z0-9-]/g, '-')
ReplaceInvalid(s) ==
    [i \in 1..Len(s) |-> IF s[i] \in SlugChars THEN s[i] ELSE Hyphen]

RECURSIVE StripLeadingHyphens(_)
StripLeadingHyphens(s) ==
    IF s # <<>> /\ Head(s) = Hyphen THEN StripLeadingHyphens(Tail(s)) ELSE s

RECURSIVE StripTrailingHyphens(_)
StripTrailingHyphens(s) ==
    IF s # <<>> /\ s[Len(s)] = Hyphen
    THEN StripTrailingHyphens(SubSeq(s, 1, Len(s) - 1))
    ELSE s

\* a plausible slip: /^-|-$/g strips one hyphen at each end, not the whole run
StripOneHyphenEachEnd(s) ==
    LET a == IF s # <<>> /\ Head(s) = Hyphen THEN Tail(s) ELSE s
    IN  IF a # <<>> /\ a[Len(a)] = Hyphen THEN SubSeq(a, 1, Len(a) - 1) ELSE a

\* .replace(/^-+|-+$/g, '')
StripHyphens(s) == StripTrailingHyphens(StripLeadingHyphens(s))

\* the slug normalization of identifyOrganization
NormalizeSlug(s) == StripHyphens(ReplaceInvalid(ToLowerCase(Trim(s))))

(***************************************************************************)
(* The organizations table.  A row is [id, slug, subdomain]; a null        *)
(* subdomain is the empty string.  POST /organizations stores the slug as  *)
(* slug.toLowerCase().replace(/[^a-z0-9-]/g, '-') without trimming or      *)
(* stripping hyphens, so "-b-" is a slug the program stores; it does not   *)
(* compare a new subdomain with the stored slugs, so o3 can hold the       *)
(* subdomain "ac" while o1 holds the slug "ac".                            *)
(***************************************************************************)
OrgAc == [id |-> "o1", slug |-> <<"a", "c">>, subdomain |-> <<>>]
OrgB == [id |-> "o2", slug |-> <<"-", "b", "-">>, subdomain |-> <<"b", "x">>]
OrgZz == [id |-> "o3", slug |-> <<"z", "z">>, subdomain |-> <<"a", "c">>]

SeedOrganizations == <<OrgAc, OrgB>>

OrgTables == {SeedOrganizations, <<OrgAc, OrgB, OrgZz>>, <<OrgZz, OrgB, OrgAc>>}

\* MAIN_APP_HOST as deployed ("Ac.io:1"), or unset
SeedMainAppHost == <<"A", "c", ".", "i", "o", ":", "1">>

(***************************************************************************)
(* Requests and the request context the middleware chain threads through.  *)
(* A request carries the Host header, the path parameter orgSlug, the      *)
(* query parameter org, the header X-Organization-Slug (each the empty     *)
(* string when absent) and the verified bearer token's payload (None       *)
(* without a valid token).  ctx.status = 0 means next() was called.        *)
(***************************************************************************)
\* no verified bearer token
NoToken == [userId |-> None, role |-> None, organizationId |-> None]

NoCtx == [status |-> 0, userId |-> None, userRole |-> None,
          organizationId |-> None, organization |-> None]

Request(host, orgSlug, org, xOrgSlug, token) ==
    [host |-> host, orgSlug |-> orgSlug, org |-> org, xOrgSlug |-> xOrgSlug,
     token |-> token]

\* s.split(sep)[0]
RECURSIVE SplitFirst(_, _)
SplitFirst(s, sep) ==
    IF s = <<>> \/ Head(s) = sep THEN <<>>
    ELSE <<Head(s)>> \o SplitFirst(Tail(s), sep)

Includes(s, c) == \E i \in 1..Len(s) : s[i] = c

WWW == <<"w", "w", "w">>
LOCALHOST == <<"l", "o", "c", "a", "l", "h", "o", "s", "t">>

\* (x || '').toLowerCase().split(':')[0]
HostName(h) == SplitFirst(ToLowerCase(h), ":")

\* the main-host test left out: the middleware before MAIN_APP_HOST existed
IsMainAppHostNever(req) == FALSE

IsMainAppHost(req) ==
    /\ HostName(mainAppHost) # <<>>
    /\ HostName(req.host) = HostName(mainAppHost)

\* Method 1: the first label of the Host header, or the empty string
SubdomainSignal(req) ==
    LET subdomain == SplitFirst(HostName(req.host), ".")
    IN  IF /\ ~IsMainAppHost(req)
           /\ subdomain # <<>>
           /\ subdomain # WWW
           /\ subdomain # LOCALHOST
           /\ ~Includes(subdomain, ":")
        THEN subdomain
        ELSE <<>>

\* the header consulted before the query parameter
OrganizationSlugHeaderFirst(req) ==
    IF SubdomainSignal(req) # <<>> THEN SubdomainSignal(req)
    ELSE IF req.orgSlug # <<>> THEN req.orgSlug
    ELSE IF req.xOrgSlug # <<>> THEN req.xOrgSlug
    ELSE req.org

\* Methods 1-4: the candidate slug, or the empty string when there is none
OrganizationSlug(req) ==
    IF SubdomainSignal(req) # <<>> THEN SubdomainSignal(req)
    ELSE IF req.orgSlug # <<>> THEN req.orgSlug
    ELSE IF req.org # <<>> THEN req.org
    ELSE req.xOrgSlug

\* null, where the code expects a row
NoRow == [id |-> None]

\* the first row, in scan order, among the rows at the indexes hits; NoRow if none
FirstRow(table, hits) ==
    IF hits = {} THEN NoRow
    ELSE table[CHOOSE i \in hits : \A j \in hits : i <= j]

\* prisma.organization.findFirst({ where: { OR: [{slug}, {subdomain}] } })
FindOrganizationExact(normalizedSlug) ==
    FirstRow(organizations,
             {i \in 1..Len(organizations) :
                 \/ organizations[i].slug = normalizedSlug
                 \/ organizations[i].subdomain = normalizedSlug})

\* allOrgs.find(org => norm(org.slug) === n || (org.subdomain && norm(org.subdomain) === n))
FindOrganizationByNormalizing(normalizedSlug) ==
    FirstRow(organizations,
             {i \in 1..Len(organizations) :
                 \/ NormalizeSlug(organizations[i].slug) = normalizedSlug
                 \/ /\ organizations[i].subdomain # <<>>
                    /\ NormalizeSlug(organizations[i].subdomain) = normalizedSlug})

\* the lookup without the fallback scan
LookupOrganizationExactOnly(normalizedSlug) ==
    FindOrganizationExact(normalizedSlug)

LookupOrganization(normalizedSlug) ==
    IF FindOrganizationExact(normalizedSlug).id # None
    THEN FindOrganizationExact(normalizedSlug)
    ELSE FindOrganizationByNormalizing(normalizedSlug)

identifyOrganization(req, ctx) ==
    LET organizationSlug == OrganizationSlug(req)
        normalizedSlug == NormalizeSlug(organizationSlug)
        organization == LookupOrganization(normalizedSlug)
    IN  IF organizationSlug = <<>> THEN ctx
        ELSE IF normalizedSlug = <<>> THEN ctx
        ELSE IF organization.id = None THEN [ctx EXCEPT !.status = 404]
        ELSE [ctx EXCEPT !.organizationId = organization.id,
                         !.organization = organization.id]

(***************************************************************************)
(* The store.  Ids are strings for the seeded tables and numbers, drawn    *)
(* from nextId and never reused, for the rows the ticket routes create.    *)
(* A ticket row is [id, organizationId, userId, assignedTo, categoryId,     *)
(* publicToken, submitterName, submitterEmail, via, statusId]; title,      *)
(* description, status and priority never decide a guard or a tenant       *)
(* filter and are left out.  statusId is the column the status migration   *)
(* adds; the ticket routes write it only in the bulk update.  via is not  *)
(* a column: it records the route that created the row, "authenticated"    *)
(* or "public".  The actor's global role is the role claim of the bearer   *)
(* token.                                                                  *)
(***************************************************************************)
MaxTickets == 1
MaxComments == 1
MaxAttachments == 1
MaxTimeEntries == 1

GlobalRoles == {"USER", "ADMIN", "SUPERADMIN"}

\* u4 created o1; u1 was added to o1 and later created o2; u2 and u3 were added
SeedMemberships == <<
    [id |-> "m1", userId |-> "u4", organizationId |-> "o1", role |-> "ADMIN"],
    [id |-> "m2", userId |-> "u1", organizationId |-> "o1", role |-> "MEMBER"],
    [id |-> "m3", userId |-> "u1", organizationId |-> "o2", role |-> "ADMIN"],
    [id |-> "m4", userId |-> "u2", organizationId |-> "o1", role |-> "MEMBER"],
    [id |-> "m5", userId |-> "u3", organizationId |-> "o2", role |-> "MEMBER"] >>

SeedCategories == <<
    [id |-> "c1", organizationId |-> "o1"],
    [id |-> "c2", organizationId |-> "o1"],
    [id |-> "c3", organizationId |-> "o2"] >>

SeedAssignments == <<
    [userId |-> "u4", categoryId |-> "c1", organizationId |-> "o1"],
    [userId |-> "u1", categoryId |-> "c1", organizationId |-> "o1"],
    [userId |-> "u3", categoryId |-> "c3", organizationId |-> "o2"] >>

SeedNextId == [ticket |-> 1, comment |-> 1, attachment |-> 1, timeEntry |-> 1]

\* the users table; a row is [id, email, role], the email written as the id
SeedUsers == {[id |-> "u1", email |-> "u1", role |-> "USER"],
              [id |-> "u2", email |-> "u2", role |-> "ADMIN"],
              [id |-> "u3", email |-> "u3", role |-> "SUPERADMIN"],
              [id |-> "u4", email |-> "u4", role |-> "USER"]}

\* ticket_statuses rows [id, name, organizationId]
SeedStatuses == {[id |-> "s1", name |-> "Open", organizationId |-> "o1"],
                 [id |-> "s2", name |-> "Closed", organizationId |-> "o1"],
                 [id |-> "s3", name |-> "Open", organizationId |-> "o2"]}

\* a connection with no request suspended on it
Idle == [pc |-> "idle"]

Connections == {1, 2}

NoInflight == [p \in Connections |-> Idle]

\* findFirst / findUnique on a unique key: the one row of hits, or null
OneRow(hits) == IF hits = {} THEN NoRow ELSE CHOOSE row \in hits : TRUE

\* prisma.userOrganization.findUnique({ where: { userId_organizationId } })
FindMembership(userId, organizationId) ==
    FirstRow(memberships,
             {i \in 1..Len(memberships) :
                 /\ memberships[i].userId = userId
                 /\ memberships[i].organizationId = organizationId})

\* userOrg?.role
MembershipRole(userId, organizationId) ==
    IF FindMembership(userId, organizationId).id = None THEN None
    ELSE FindMembership(userId, organizationId).role

(***************************************************************************)
(* The middleware.  Each takes the request context and returns it with a   *)
(* status when it answers the request itself.                              *)
(***************************************************************************)
authenticate(req, ctx) ==
    IF req.token.userId = None THEN [ctx EXCEPT !.status = 401]
    ELSE [ctx EXCEPT !.userId = req.token.userId,
                     !.userRole = req.token.role,
                     !.organizationId =
                         IF req.token.organizationId # None
                         THEN req.token.organizationId ELSE @]

\* the middleware with orderBy: { createdAt: 'desc' }
getOrganizationFromUserLatest(ctx) ==
    LET mine == {i \in 1..Len(memberships) : memberships[i].userId = ctx.userId}
        userOrg == IF mine = {} THEN NoRow
                   ELSE memberships[CHOOSE i \in mine : \A j \in mine : j <= i]
    IN  IF ctx.organizationId # None THEN ctx
        ELSE IF ctx.userId = None THEN [ctx EXCEPT !.status = 401]
        ELSE IF userOrg.id = None THEN [ctx EXCEPT !.status = 400]
        ELSE [ctx EXCEPT !.organizationId = userOrg.organizationId,
                         !.organization = userOrg.organizationId]

\* a request without a valid token goes on, with no user
optionalAuthenticate(req, ctx) ==
    IF req.token.userId = None THEN ctx
    ELSE [ctx EXCEPT !.userId = req.token.userId,
                     !.userRole = req.token.role,
                     !.organizationId =
                         IF req.token.organizationId # None
                         THEN req.token.organizationId ELSE @]

getOrganizationFromUserOptionalAuth(ctx) ==
    LET userOrg == FirstRow(memberships,
                            {i \in 1..Len(memberships) :
                                memberships[i].userId = ctx.userId})
    IN  IF ctx.organizationId # None THEN ctx
        ELSE IF ctx.userId = None THEN ctx
        ELSE IF userOrg.id = None THEN ctx
        ELSE [ctx EXCEPT !.organizationId = userOrg.organizationId,
                         !.organization = userOrg.organizationId]

getOrganizationFromUser(ctx) ==
    LET userOrg == FirstRow(memberships,
                            {i \in 1..Len(memberships) :
                                memberships[i].userId = ctx.userId})
    IN  IF ctx.organizationId # None THEN ctx
        ELSE IF ctx.userId = None THEN [ctx EXCEPT !.status = 401]
        ELSE IF userOrg.id = None THEN [ctx EXCEPT !.status = 400]
        ELSE [ctx EXCEPT !.organizationId = userOrg.organizationId,
                         !.organization = userOrg.organizationId]

\* the guard with a platform-ADMIN bypass of the membership lookup
verifyOrganizationAccessAdminBypass(ctx) ==
    IF ctx.organizationId = None \/ ctx.userId = None
    THEN [ctx EXCEPT !.status = 401]
    ELSE IF /\ FindMembership(ctx.userId, ctx.organizationId).id = None
            /\ ctx.userRole # "ADMIN"
    THEN [ctx EXCEPT !.status = 403]
    ELSE ctx

verifyOrganizationAccess(ctx) ==
    IF ctx.organizationId = None \/ ctx.userId = None
    THEN [ctx EXCEPT !.status = 401]
    ELSE IF FindMembership(ctx.userId, ctx.organizationId).id = None
    THEN [ctx EXCEPT !.status = 403]
    ELSE ctx

\* the guard accepting every global role above USER
requireOrgAdminAnyElevatedRole(ctx) ==
    IF ctx.organizationId = None \/ ctx.userId = None
    THEN [ctx EXCEPT !.status = 401]
    ELSE IF \/ FindMembership(ctx.userId, ctx.organizationId).id = None
            \/ /\ FindMembership(ctx.userId, ctx.organizationId).role # "ADMIN"
               /\ ctx.userRole = "USER"
    THEN [ctx EXCEPT !.status = 403]
    ELSE ctx

requireOrgAdmin(ctx) ==
    IF ctx.organizationId = None \/ ctx.userId = None
    THEN [ctx EXCEPT !.status = 401]
    ELSE IF \/ FindMembership(ctx.userId, ctx.organizationId).id = None
            \/ /\ FindMembership(ctx.userId, ctx.organizationId).role # "ADMIN"
               /\ ctx.userRole # "ADMIN"
    THEN [ctx EXCEPT !.status = 403]
    ELSE ctx

(***************************************************************************)
(* The middleware chains of the routes.  A chain returns the context and   *)
(* the name of the middleware that answered the request, None when every   *)
(* middleware called next() and the handler runs.                          *)
(***************************************************************************)
Answered(ctx, by) == [ctx |-> ctx, sentBy |-> by]

\* authenticate, identifyOrganization, getOrganizationFromUser, verifyOrganizationAccess
MemberChain(req) ==
    LET a == authenticate(req, NoCtx)
        b == identifyOrganization(req, a)
        c == getOrganizationFromUser(b)
        d == verifyOrganizationAccess(c)
    IN  IF a.status # 0 THEN Answered(a, "authenticate")
        ELSE IF b.status # 0 THEN Answered(b, "identifyOrganization")
        ELSE IF c.status # 0 THEN Answered(c, "getOrganizationFromUser")
        ELSE IF d.status # 0 THEN Answered(d, "verifyOrganizationAccess")
        ELSE Answered(d, None)

\* authenticate, identifyOrganization, getOrganizationFromUser, requireOrgAdmin
OrgAdminChain(req) ==
    LET a == authenticate(req, NoCtx)
        b == identifyOrganization(req, a)
        c == getOrganizationFromUser(b)
        d == requireOrgAdmin(c)
    IN  IF a.status # 0 THEN Answered(a, "authenticate")
        ELSE IF b.status # 0 THEN Answered(b, "identifyOrganization")
        ELSE IF c.status # 0 THEN Answered(c, "getOrganizationFromUser")
        ELSE IF d.status # 0 THEN Answered(d, "requireOrgAdmin")
        ELSE Answered(d, None)

\* identifyOrganization alone
PublicChain(req) ==
    LET b == identifyOrganization(req, NoCtx)
    IN  IF b.status # 0 THEN Answered(b, "identifyOrganization")
        ELSE Answered(b, None)

\* identifyOrganization, authenticate, verifyOrganizationAccess
OrgSlugMemberChain(req) ==
    LET a == identifyOrganization(req, NoCtx)
        b == authenticate(req, a)
        c == verifyOrganizationAccess(b)
    IN  IF a.status # 0 THEN Answered(a, "identifyOrganization")
        ELSE IF b.status # 0 THEN Answered(b, "authenticate")
        ELSE IF c.status # 0 THEN Answered(c, "verifyOrganizationAccess")
        ELSE Answered(c, None)

\* identifyOrganization, authenticate, requireOrgAdmin
OrgSlugAdminChain(req) ==
    LET a == identifyOrganization(req, NoCtx)
        b == authenticate(req, a)
        c == requireOrgAdmin(b)
    IN  IF a.status # 0 THEN Answered(a, "identifyOrganization")
        ELSE IF b.status # 0 THEN Answered(b, "authenticate")
        ELSE IF c.status # 0 THEN Answered(c, "requireOrgAdmin")
        ELSE Answered(c, None)

(***************************************************************************)
(* The response.  Beside the status it records what the claims are about:  *)
(* the context the chain built, the isOrgAdmin the handler computed, the   *)
(* organizations of the tickets whose rows the handler returned, updated   *)
(* or deleted (touched), whether a path or body id names a row of another  *)
(* tenant (foreign), whether the store changed (wrote), and for a created  *)
(* ticket its id, its assignee, and the notification rows and emails the   *)
(* handler produced.  request holds the path and the query token of a      *)
(* request whose route was found by matching the path against the          *)
(* router's declarations, statusId the path id of DELETE                   *)
(* /ticket-statuses/:id.  conflict tells that the request met a unique     *)
(* constraint: the handler's own look-up found the duplicate, or the store *)
(* refused the insert.  rawSlug is the slug of the body, as typed, of a    *)
(* request that created an organization.                                   *)
(***************************************************************************)
NoRequest == [path |-> None, token |-> None]

\* a request body of PUT /tickets/:id with no field
NoData == [title |-> Absent, description |-> Absent, status |-> Absent,
           priority |-> Absent, assignedTo |-> Absent, categoryId |-> Absent]

NoResp == [route |-> None, request |-> NoRequest, statusId |-> None, conflict |-> FALSE,
           rawSlug |-> <<>>,
           status |-> 0, sentBy |-> None, userId |-> None,
           userRole |-> None, organizationId |-> None, isOrgAdmin |-> None,
           touched |-> {}, foreign |-> FALSE, wrote |-> FALSE, ticketId |-> 0,
           assignedTo |-> None, notifications |-> <<>>, emails |-> <<>>,
           data |-> NoData, changes |-> <<>>]

\* the response of the middleware that answered, or the handler's default 200
Response(route, chain) ==
    [NoResp EXCEPT !.route = route,
                   !.status = IF chain.sentBy = None THEN 200 ELSE chain.ctx.status,
                   !.sentBy = IF chain.sentBy = None THEN "handler" ELSE chain.sentBy,
                   !.userId = chain.ctx.userId,
                   !.userRole = chain.ctx.userRole,
                   !.organizationId = chain.ctx.organizationId]

\* res.status(status).json(...) from the handler
Status(r, status) == [r EXCEPT !.status = status]

\* r, answering a request that met a unique constraint
Conflict(r) == [r EXCEPT !.conflict = TRUE]

\* an email send that has finished by the time the handler goes on
StartedAndSettled(email) == [to |-> email.to, type |-> email.type, state |-> "sent"]

\* the promise of one email send the handler has started
Started(email) == [to |-> email.to, type |-> email.type, state |-> "pending"]

\* the response is sent, with the store as the handler leaves it, while the
\* email sends the handler started are still pending
Send(r) ==
    /\ resp' = [r EXCEPT !.wrote = (storeVars' # storeVars)]
    /\ mail' = [i \in 1..Len(r.emails) |-> Started(r.emails[i])]

SeedStore ==
    /\ memberships = SeedMemberships
    /\ categories = SeedCategories
    /\ assignments = SeedAssignments
    /\ tickets = {}
    /\ comments = {}
    /\ attachments = {}
    /\ timeEntries = {}
    /\ activityLogs = {}
    /\ nextId = SeedNextId
    /\ resp = NoResp
    /\ users = SeedUsers
    /\ statuses = SeedStatuses
    /\ passwordResets = {}
    /\ loginOTPs = <<>>
    /\ notifications = {}
    /\ inflight = NoInflight
    /\ mail = <<>>
    /\ waiting = NoResp

(***************************************************************************)
(* Specification SpecNorm: the normalization applied to every raw slug of  *)
(* length <= MaxRawLen over NormAlphabet, and applied again to its result. *)
(***************************************************************************)
NormAlphabet == {"a", "B", "1", "-", " ", "_"}

RECURSIVE SeqsUpTo(_, _)
SeqsUpTo(S, n) ==
    IF n = 0 THEN {<<>>}
    ELSE LET shorter == SeqsUpTo(S, n - 1)
         IN  shorter \cup {Append(s, c) : s \in shorter, c \in S}

RawSlugs == SeqsUpTo(NormAlphabet, MaxRawLen)

ResolveIdle == rq = Request(<<>>, <<>>, <<>>, <<>>, NoToken) /\ rs = NoCtx /\ rs2 = NoCtx /\ rPhase = 0

InitNorm ==
    /\ nRaw \in RawSlugs
    /\ nOnce = <<>>
    /\ nTwice = <<>>
    /\ nPhase = 0
    /\ mainAppHost = SeedMainAppHost
    /\ organizations = SeedOrganizations
    /\ ResolveIdle
    /\ SeedStore

NormalizeOnce ==
    /\ nPhase = 0
    /\ nOnce' = NormalizeSlug(nRaw)
    /\ nPhase' = 1
    /\ UNCHANGED <<nRaw, nTwice, configVars, resolveVars, storeVars, resp, sideVars>>

NormalizeAgain ==
    /\ nPhase = 1
    /\ nTwice' = NormalizeSlug(nOnce)
    /\ nPhase' = 2
    /\ UNCHANGED <<nRaw, nOnce, configVars, resolveVars, storeVars, resp, sideVars>>

NextNorm == NormalizeOnce \/ NormalizeAgain

SpecNorm == InitNorm /\ [][NextNorm]_vars

\* C8: the slug normalization is idempotent, and its result contains only
\* characters of [a-z0-9-] and neither starts nor ends with '-'.
C8_NormalizeIdempotentAndClean ==
    /\ nPhase >= 1 =>
          /\ \A i \in 1..Len(nOnce) : nOnce[i] \in SlugChars
          /\ nOnce # <<>> => (nOnce[1] # Hyphen /\ nOnce[Len(nOnce)] # Hyphen)
    /\ nPhase = 2 => nTwice = nOnce

\* a raw slug with whitespace, an upper-case letter and hyphen runs at both
\* ends has been normalized twice, to a non-empty result
C8_Witness ==
    /\ nPhase = 2
    /\ nRaw = <<"-", "B", "_">>
    /\ nOnce = <<"b">>

(***************************************************************************)
(* Specification SpecResolve: identifyOrganization on one request drawn    *)
(* from Hosts x SlugInputs^3 against each organizations table, followed by *)
(* a second request that names the same tenant by the normalized candidate *)
(* in the X-Organization-Slug header alone.                                *)
(***************************************************************************)
Hosts == {
    <<>>,
    <<"a", "c", ".", "i", "o">>,
    <<"A", "C", ".", "i", "o", ":", "1">>,
    <<"b", "x", ".", "i", "o">>,
    <<"z", "z", ".", "i", "o">>,
    <<"w", "w", "w", ".", "i", "o">>,
    <<"l", "o", "c", "a", "l", "h", "o", "s", "t", ":", "1">> }

SlugInputs == {
    <<>>,
    <<"a", "c">>,
    <<"A", "C">>,
    <<" ", "b", "_">>,
    <<"-", "-">>,
    <<"x", "1">> }

NormIdle == nRaw = <<>> /\ nOnce = <<>> /\ nTwice = <<>> /\ nPhase = 0

InitResolve ==
    /\ NormIdle
    /\ mainAppHost \in {<<>>, SeedMainAppHost}
    /\ organizations \in OrgTables
    /\ rq \in {Request(h, p, q, x, NoToken) : h \in Hosts, p \in SlugInputs,
                                           q \in SlugInputs, x \in SlugInputs}
    /\ rs = NoCtx
    /\ rs2 = NoCtx
    /\ rPhase = 0
    /\ SeedStore

IdentifyRequest ==
    /\ rPhase = 0
    /\ rs' = identifyOrganization(rq, NoCtx)
    /\ rPhase' = 1
    /\ UNCHANGED <<normVars, configVars, rq, rs2, storeVars, resp, sideVars>>

\* the same tenant named by the normalized candidate, in the header alone
IdentifyByHeader ==
    /\ rPhase = 1
    /\ NormalizeSlug(OrganizationSlug(rq)) # <<>>
    /\ rs2' = identifyOrganization(
                  Request(<<>>, <<>>, <<>>, NormalizeSlug(OrganizationSlug(rq)), NoToken),
                  NoCtx)
    /\ rPhase' = 2
    /\ UNCHANGED <<normVars, configVars, rq, rs, storeVars, resp, sideVars>>

NextResolve == IdentifyRequest \/ IdentifyByHeader

SpecResolve == InitResolve /\ [][NextResolve]_vars

NoHost(req) == [req EXCEPT !.host = <<>>]

\* the organizations whose stored slug or subdomain is c, or normalizes to c
ExactMatches(c) ==
    {i \in 1..Len(organizations) :
        organizations[i].slug = c \/ organizations[i].subdomain = c}

NormalizedMatches(c) ==
    {i \in 1..Len(organizations) :
        \/ NormalizeSlug(organizations[i].slug) = c
        \/ /\ organizations[i].subdomain # <<>>
           /\ NormalizeSlug(organizations[i].subdomain) = c}

\* the outcome is the one tenant resolution by the raw candidate cand must give
ResolvedBy(outcome, cand) ==
    LET c == NormalizeSlug(cand)
    IN  IF c = <<>> THEN outcome = NoCtx
        ELSE IF ExactMatches(c) \cup NormalizedMatches(c) = {}
        THEN outcome.status = 404 /\ outcome.organizationId = None
        ELSE /\ outcome.status = 0
             /\ \E i \in ExactMatches(c) \cup NormalizedMatches(c) :
                    outcome.organizationId = organizations[i].id

\* C6: when the Host (lowercased, port stripped) equals the configured
\* main-application host, the tenant candidate is never the host's first
\* label: the outcome is that of the same request without a Host header, and
\* it is decided by the path parameter, else the query parameter, else the
\* header; with none of them no tenant is attached.
C6_MainHostNeverSubdomain ==
    (/\ rPhase >= 1
     /\ HostName(mainAppHost) # <<>>
     /\ HostName(rq.host) = HostName(mainAppHost))
    => /\ rs = identifyOrganization(NoHost(rq), NoCtx)
       /\ ResolvedBy(rs, IF rq.orgSlug # <<>> THEN rq.orgSlug
                         ELSE IF rq.org # <<>> THEN rq.org
                         ELSE rq.xOrgSlug)

\* the Host is the main host "ac.io", whose first label is the slug of o1, and
\* the request resolved to o2, named by the header
C6_Witness ==
    /\ rPhase = 1
    /\ mainAppHost = SeedMainAppHost
    /\ rq.host = <<"A", "C", ".", "i", "o", ":", "1">>
    /\ \E i \in 1..Len(organizations) :
          organizations[i].id = "o1" /\ organizations[i].slug = <<"a", "c">>
    /\ rq.orgSlug = <<>> /\ rq.org = <<>> /\ rq.xOrgSlug = <<" ", "b", "_">>
    /\ rs.organizationId = "o2"

\* C7: the candidate is the first non-empty signal in the order host
\* subdomain, path parameter, query parameter, header, and no later signal
\* is consulted: the outcome is that of the request with every later signal
\* removed, also when the candidate matches no organization (404); with a
\* query org and a header org the query value decides.
C7_FirstCandidateOnly ==
    rPhase >= 1 =>
        LET sub == SubdomainSignal(rq)
            Only(p, q, x) == identifyOrganization(Request(rq.host, p, q, x, NoToken), NoCtx)
        IN  /\ sub # <<>> => rs = Only(<<>>, <<>>, <<>>) /\ ResolvedBy(rs, sub)
            /\ (sub = <<>> /\ rq.orgSlug # <<>>)
                  => rs = Only(rq.orgSlug, <<>>, <<>>) /\ ResolvedBy(rs, rq.orgSlug)
            /\ (sub = <<>> /\ rq.orgSlug = <<>> /\ rq.org # <<>>)
                  => rs = Only(<<>>, rq.org, <<>>) /\ ResolvedBy(rs, rq.org)
            /\ (sub = <<>> /\ rq.orgSlug = <<>> /\ rq.org = <<>>)
                  => ResolvedBy(rs, rq.xOrgSlug)

\* a query org that matches no organization and a header org that names o1:
\* the answer is 404
C7_Witness ==
    /\ rPhase = 1
    /\ SubdomainSignal(rq) = <<>>
    /\ rq.orgSlug = <<>>
    /\ rq.org = <<"x", "1">>
    /\ rq.xOrgSlug = <<"a", "c">>
    /\ rs.status = 404

\* C9: for a non-empty normalized candidate c the middleware attaches an
\* organization whose stored slug or subdomain equals c, failing that one
\* whose stored slug or subdomain normalizes to c, and answers 404 when there
\* is none; a second request naming c itself resolves to the same outcome.
C9_LookupByNormalizedCandidate ==
    LET c == NormalizeSlug(OrganizationSlug(rq))
    IN  (rPhase >= 1 /\ c # <<>>) =>
            /\ ExactMatches(c) # {} =>
                  /\ rs.status = 0
                  /\ \E i \in ExactMatches(c) : rs.organizationId = organizations[i].id
            /\ (ExactMatches(c) = {} /\ NormalizedMatches(c) # {}) =>
                  /\ rs.status = 0
                  /\ \E i \in NormalizedMatches(c) : rs.organizationId = organizations[i].id
            /\ (ExactMatches(c) = {} /\ NormalizedMatches(c) = {}) =>
                  /\ rs.status = 404
                  /\ rs.organizationId = None
            /\ rPhase = 2 => rs2 = rs

\* ?org=" b_" resolved to o2, whose stored slug "-b-" only normalizes to "b",
\* and so did the request with the header "b"
C9_Witness ==
    /\ rPhase = 2
    /\ SubdomainSignal(rq) = <<>>
    /\ rq.orgSlug = <<>>
    /\ rq.org = <<" ", "b", "_">>
    /\ ExactMatches(<<"b">>) = {}
    /\ rs.organizationId = "o2"
    /\ rs2.organizationId = "o2"

(***************************************************************************)
(* Queries of the ticket routes.  A where-clause field whose value is      *)
(* undefined (None here) is no filter: on the routes guarded only by       *)
(* identifyOrganization req.organizationId can be undefined.  Number ids   *)
(* that are null are 0.                                                    *)
(***************************************************************************)

\* the lookup by id alone
FindTicketInAnyTenant(id, organizationId) ==
    OneRow({t \in tickets : t.id = id})

\* prisma.ticket.findFirst({ where: { id, organizationId } })
FindTicket(id, organizationId) ==
    OneRow({t \in tickets :
               /\ t.id = id
               /\ organizationId # None => t.organizationId = organizationId})

\* prisma.category.findFirst({ where: { id: categoryId, organizationId } })
FindCategory(categoryId, organizationId) ==
    FirstRow(categories,
             {i \in 1..Len(categories) :
                 /\ categories[i].id = categoryId
                 /\ organizationId # None => categories[i].organizationId = organizationId})

\* prisma.userCategoryAssignment.findMany({ where: { categoryId, organizationId } })
FindAssignments(categoryId, organizationId) ==
    LET Matches(a) == /\ a.categoryId = categoryId
                      /\ organizationId # None => a.organizationId = organizationId
    IN  SelectSeq(assignments, Matches)

\* prisma.comment.findFirst({ where: { id: commentId, ticketId: id } })
FindComment(commentId, id) ==
    OneRow({c \in comments : c.id = commentId /\ c.ticketId = id})

\* prisma.attachment.findFirst({ where: { id: attachmentId } })
FindAttachment(attachmentId) == OneRow({a \in attachments : a.id = attachmentId})

\* prisma.timeEntry.findFirst({ where: { id: timeEntryId } })
FindTimeEntry(timeEntryId) == OneRow({e \in timeEntries : e.id = timeEntryId})

\* attachment.ticketId || attachment.comment?.ticketId
AttachmentTicketId(a) ==
    IF a.ticketId # 0 THEN a.ticketId
    ELSE OneRow({c \in comments : c.id = a.commentId}).ticketId

\* the organizationId of the ticket with this id
TicketOrganizationId(id) == OneRow({t \in tickets : t.id = id}).organizationId

\* isOrgAdmin of the comment, attachment, time-entry and bulk routes
IsOrgAdminByMembership(ctx) ==
    MembershipRole(ctx.userId, ctx.organizationId) = "ADMIN"

\* isOrgAdmin of the list, get and update routes
IsOrgAdmin(ctx) ==
    \/ MembershipRole(ctx.userId, ctx.organizationId) = "ADMIN"
    \/ ctx.userRole = "ADMIN"

\* the rows of the tickets ids and of their comments, attachments, time
\* entries and activity logs leave the store
RemoveTickets(ids) ==
    /\ tickets' = {t \in tickets : t.id \notin ids}
    /\ comments' = {c \in comments : c.ticketId \notin ids}
    /\ attachments' = {a \in attachments : AttachmentTicketId(a) \notin ids}
    /\ timeEntries' = {e \in timeEntries : e.ticketId \notin ids}
    /\ activityLogs' = activityLogs \ ids

\* logTicketAction / logTicketChange
LogTicket(ids) == activityLogs' = activityLogs \cup ids

\* r, noting whether one of the ticket ids the request names is a ticket of
\* another tenant than the resolved one
Addressing(r, ids) ==
    IF r.sentBy # "handler" THEN r
    ELSE [r EXCEPT !.foreign = \E t \in tickets : /\ t.id \in ids
                                                  /\ t.organizationId # r.organizationId]

Touching(r, organizationIds) == [r EXCEPT !.touched = organizationIds]

\* r, noting the isOrgAdmin the handler computed, as "true" or "false"
Computed(r, isOrgAdmin) ==
    [r EXCEPT !.isOrgAdmin = IF isOrgAdmin THEN "true" ELSE "false"]

\* what a ticket handler leaves alone beside the store, and what the
\* handlers that resume a suspended request leave alone
restVars == <<normVars, configVars, resolveVars, accountVars, waiting>>
frameVars == <<restVars, inflight>>

(***************************************************************************)
(* The ticket routes, one action per route.  A request is handled in one   *)
(* step, from the first middleware to the response; SendResponse ends it.  *)
(* Request bodies are the ones the route's schema accepts.                 *)
(* The middleware chain runs once per request: chain is its one result,    *)
(* the context it built and the middleware that answered, if any.          *)
(***************************************************************************)
\* GET /tickets
ListTickets(req) ==
    /\ resp = NoResp
    /\ \E chain \in {MemberChain(req)} :
           LET ctx == chain.ctx
               r == Response("ListTickets", chain)
               isOrgAdmin == IsOrgAdmin(ctx)
               rows == {t \in tickets : /\ t.organizationId = ctx.organizationId
                                        /\ ~isOrgAdmin => t.userId = ctx.userId}
           IN  /\ UNCHANGED <<frameVars, storeVars>>
               /\ Send(IF chain.sentBy # None THEN r
                       ELSE Computed(Touching(r, {t.organizationId : t \in rows}), isOrgAdmin))

\* a path segment a route declares: a literal or a parameter
Lit(text) == [param |-> FALSE, text |-> text]
Par(name) == [param |-> TRUE, text |-> name]

\* the GET routes of the tickets router, in the order router.get declares them
GetRoutes == <<
    [pattern |-> <<>>, route |-> "ListTickets"],
    [pattern |-> <<Par("id")>>, route |-> "GetTicket"],
    [pattern |-> <<Lit("public")>>, route |-> "TrackTicket"],
    [pattern |-> <<Lit("attachments"), Par("attachmentId"), Lit("file")>>,
     route |-> "GetAttachmentFile"],
    [pattern |-> <<Par("id"), Lit("activity")>>, route |-> "GetActivity"],
    [pattern |-> <<Par("id"), Lit("time")>>, route |-> "GetTimeEntries"] >>

\* a path, as its segments, matches a declared pattern
MatchesPath(pattern, path) ==
    /\ Len(pattern) = Len(path)
    /\ \A i \in 1..Len(path) : pattern[i].param \/ pattern[i].text = path[i]

\* express runs the first declared route whose pattern matches the path
RouteOf(routes, path) ==
    LET hits == {i \in 1..Len(routes) : MatchesPath(routes[i].pattern, path)}
    IN  IF hits = {} THEN None
        ELSE routes[CHOOSE i \in hits : \A j \in hits : i <= j].route

\* req.params.id of GET /tickets/public under the route /:id: no ticket's id
PublicSegment == -1

\* the handler of GET /tickets/:id, for a request found by request
HandleGetTicket(request, req, id) ==
    /\ resp = NoResp
    /\ \E chain \in {MemberChain(req)} :
           LET ctx == chain.ctx
               r == [Addressing(Response("GetTicket", chain), {id})
                       EXCEPT !.request = request]
               ticket == FindTicket(id, ctx.organizationId)
               isOrgAdmin == IsOrgAdmin(ctx)
           IN  /\ UNCHANGED <<frameVars, storeVars>>
               /\ Send(IF chain.sentBy # None THEN r
                       ELSE IF ticket = NoRow THEN Status(r, 404)
                       ELSE IF /\ ~isOrgAdmin
                               /\ ticket.userId # ctx.userId
                               /\ ticket.assignedTo # ctx.userId
                       THEN Computed(Status(r, 403), isOrgAdmin)
                       ELSE Computed(Touching(r, {ticket.organizationId}), isOrgAdmin))

\* GET /tickets/:id
GetTicket(req, id) == HandleGetTicket(NoRequest, req, id)

\* prisma.ticket.findFirst({ where: { publicToken: token, organizationId } })
FindTicketByToken(token, organizationId) ==
    OneRow({t \in tickets :
               /\ t.publicToken = token
               /\ organizationId # None => t.organizationId = organizationId})

\* the handler of GET /tickets/public?token=
HandleTrackTicket(req, token) ==
    /\ resp = NoResp
    /\ \E chain \in {PublicChain(req)} :
           LET ctx == chain.ctx
               r == [Response("TrackTicket", chain)
                       EXCEPT !.request = [path |-> "GET /public", token |-> token]]
               ticket == FindTicketByToken(token, ctx.organizationId)
           IN  /\ UNCHANGED <<frameVars, storeVars>>
               /\ Send(IF chain.sentBy # None THEN r
                       ELSE IF token = None THEN Status(r, 400)
                       ELSE IF ticket = NoRow THEN Status(r, 404)
                       ELSE [Touching(r, {ticket.organizationId})
                               EXCEPT !.ticketId = ticket.id])

\* GET /api/tickets/public?token=, dispatched by the tickets router
TrackTicket(req, token) ==
    IF RouteOf(GetRoutes, <<"public">>) = "GetTicket"
    THEN HandleGetTicket([path |-> "GET /public", token |-> token], req, PublicSegment)
    ELSE HandleTrackTicket(req, token)

\* prisma.ticket.findUnique({ where: { publicToken } }) finds a row
TokenExists(publicToken) == \E t \in tickets : t.publicToken = publicToken

\* a store whose tickets.publicToken carries no unique index
tickets_publicToken_unindexed(publicToken) == FALSE

\* the unique index on tickets.publicToken rejects the insert (P2002)
tickets_publicToken_key(publicToken) == TokenExists(publicToken)

\* while (tokenExists && attempts < 10)
MaxAttempts == 10

\* the TICKET_ASSIGNED notification rows of the assigned users
AssignmentNotifications(rows) ==
    [i \in 1..Len(rows) |-> [userId |-> rows[i].userId, type |-> "TICKET_ASSIGNED"]]

\* the sendTicketAssignmentEmail calls for the assigned users
AssignmentEmails(rows) ==
    [i \in 1..Len(rows) |-> [to |-> rows[i].userId, type |-> "TICKET_ASSIGNED"]]

\* POST /tickets
CreateTicket(req, categoryId, publicToken, submitter) ==
    /\ resp = NoResp
    /\ \E chain \in {MemberChain(req)} :
           LET ctx == chain.ctx
               r == Response("CreateTicket", chain)
               category == IF categoryId = None THEN NoRow
                           ELSE FindCategory(categoryId, ctx.organizationId)
               found == IF categoryId = None THEN <<>>
                        ELSE FindAssignments(categoryId, ctx.organizationId)
               assignedUserId == IF Len(found) > 0 THEN found[1].userId ELSE None
               ticket == [id |-> nextId.ticket, organizationId |-> ctx.organizationId,
                          userId |-> ctx.userId, assignedTo |-> assignedUserId,
                          categoryId |-> categoryId, publicToken |-> publicToken,
                          submitterName |-> None, submitterEmail |-> None,
                          via |-> "authenticated", statusId |-> None,
                          status |-> "OPEN", priority |-> "MEDIUM", title |-> "t1",
                          description |-> "d1"]
           IN  /\ nextId.ticket <= MaxTickets
               /\ UNCHANGED restVars
               /\ IF \/ chain.sentBy # None
                     \/ (categoryId # None /\ category.id = None)
                     \/ tickets_publicToken_key(publicToken)
                  THEN /\ UNCHANGED storeVars
                       /\ Send(IF chain.sentBy # None THEN r
                               ELSE IF categoryId # None /\ category.id = None
                               THEN Status(r, 400)
                               ELSE Conflict(Status(r, 500)))
                  ELSE /\ tickets' = tickets \cup {ticket}
                       /\ nextId' = [nextId EXCEPT !.ticket = @ + 1]
                       /\ LogTicket({ticket.id})
                       /\ UNCHANGED <<memberships, categories, assignments, comments,
                                      attachments, timeEntries>>
                       /\ Send([Touching(Status(r, 201), {ticket.organizationId})
                                  EXCEPT !.ticketId = ticket.id,
                                         !.assignedTo = ticket.assignedTo,
                                         !.notifications =
                                             <<[userId |-> ctx.userId, type |-> "TICKET_CREATED"]>>
                                             \o AssignmentNotifications(found),
                                         !.emails =
                                             <<[to |-> ctx.userId, type |-> "TICKET_SUBMITTED"]>>
                                             \o AssignmentEmails(found)])

\* POST /tickets/public.  Without a resolved tenant prisma.ticket.create
\* rejects the row, which has no organization, and the answer is 500.
CreatePublicTicket(req, categoryId, publicToken, submitter) ==
    /\ resp = NoResp
    /\ \E chain \in {PublicChain(req)} :
           LET ctx == chain.ctx
               r == Response("CreatePublicTicket", chain)
               category == IF categoryId = None THEN NoRow
                           ELSE FindCategory(categoryId, ctx.organizationId)
               found == IF categoryId = None THEN <<>>
                        ELSE FindAssignments(categoryId, ctx.organizationId)
               assignedUserId == IF Len(found) > 0 THEN found[1].userId ELSE None
               ticket == [id |-> nextId.ticket, organizationId |-> ctx.organizationId,
                          userId |-> None, assignedTo |-> assignedUserId,
                          categoryId |-> categoryId, publicToken |-> publicToken,
                          submitterName |-> submitter.name,
                          submitterEmail |-> submitter.email,
                          via |-> "public", statusId |-> None,
                          status |-> "OPEN", priority |-> "MEDIUM", title |-> "t1",
                          description |-> "d1"]
               invalid == submitter.name = Absent \/ submitter.email = Absent
               noCategory == categoryId # None /\ category.id = None
           IN  /\ nextId.ticket <= MaxTickets
               /\ UNCHANGED restVars
               /\ IF \/ chain.sentBy # None
                     \/ invalid
                     \/ noCategory
                     \/ ctx.organizationId = None
                     \/ tickets_publicToken_key(publicToken)
                  THEN /\ UNCHANGED storeVars
                       /\ Send(IF chain.sentBy # None THEN r
                               ELSE IF invalid \/ noCategory THEN Status(r, 400)
                               ELSE IF ctx.organizationId = None THEN Status(r, 500)
                               ELSE Conflict(Status(r, 500)))
                  ELSE /\ tickets' = tickets \cup {ticket}
                       /\ nextId' = [nextId EXCEPT !.ticket = @ + 1]
                       /\ UNCHANGED <<memberships, categories, assignments, comments,
                                      attachments, timeEntries, activityLogs>>
                       /\ Send([Touching(Status(r, 201), {ticket.organizationId})
                                  EXCEPT !.ticketId = ticket.id,
                                         !.assignedTo = ticket.assignedTo,
                                         !.emails =
                                             <<[to |-> "submitter", type |-> "TICKET_SUBMITTED"]>>
                                             \o AssignmentEmails(found)])

\* PUT /tickets/:id with the body fields assignedTo and categoryId
\* the fields the update route compares and logs, in the order it logs them
LoggedFields == <<"status", "priority", "assignedTo", "categoryId", "title", "description">>

\* prisma.ticket.update({ data: { ...data, categoryId: data.categoryId || null } })
UpdatedTicket(ticket, data) ==
    [ticket EXCEPT
        !.status = IF data.status # Absent THEN data.status ELSE @,
        !.priority = IF data.priority # Absent THEN data.priority ELSE @,
        !.title = IF data.title # Absent THEN data.title ELSE @,
        !.description = IF data.description # Absent THEN data.description ELSE @,
        !.assignedTo = IF data.assignedTo # Absent THEN data.assignedTo ELSE @,
        !.categoryId = IF data.categoryId = Absent THEN @
                       ELSE IF data.categoryId = "" THEN None
                       ELSE data.categoryId]

\* the rows logTicketChange writes: one per field of data that is defined
\* and differs from the ticket's, with the old value and the stored one
LoggedChanges(ticket, data) ==
    LET changed == SelectSeq(LoggedFields,
                             LAMBDA f : data[f] # Absent /\ data[f] # ticket[f])
    IN  [i \in 1..Len(changed) |->
            [field |-> changed[i], oldValue |-> ticket[changed[i]],
             newValue |-> UpdatedTicket(ticket, data)[changed[i]]]]

\* tickets.assignedTo references users.id
NoSuchUser(userId) ==
    userId \notin {Absent, None} /\ \A u \in users : u.id # userId

\* PUT /tickets/:id
UpdateTicketWith(req, id, body) ==
    /\ resp = NoResp
    /\ \E chain \in {MemberChain(req)} :
           LET ctx == chain.ctx
               r == [Addressing(Response("UpdateTicket", chain), {id}) EXCEPT !.data = body]
               ticket == FindTicket(id, ctx.organizationId)
               isOrgAdmin == IsOrgAdmin(ctx)
               hasCategory == body.categoryId \notin {Absent, None, ""}
               category == IF hasCategory
                           THEN FindCategory(body.categoryId, ctx.organizationId)
                           ELSE NoRow
               found == FindAssignments(body.categoryId, ctx.organizationId)
               data == IF hasCategory /\ ticket.assignedTo = None /\ Len(found) > 0
                       THEN [body EXCEPT !.assignedTo = found[1].userId]
                       ELSE body
               statusChanged == data.status # Absent /\ data.status # ticket.status
               assignmentChanged == data.assignedTo # Absent
                                    /\ data.assignedTo # ticket.assignedTo
               updatedTicket == UpdatedTicket(ticket, data)
               changes == LoggedChanges(ticket, data)
               submitter == IF ticket.userId # None THEN ticket.userId
                            ELSE ticket.submitterEmail
               assigned == IF assignmentChanged /\ updatedTicket.assignedTo # None
                           THEN <<[userId |-> updatedTicket.assignedTo]>>
                           ELSE <<>>
           IN  /\ UNCHANGED frameVars
               /\ IF chain.sentBy # None
                  THEN UNCHANGED storeVars /\ Send(r)
                  ELSE IF ticket = NoRow
                  THEN UNCHANGED storeVars /\ Send(Status(r, 404))
                  ELSE IF ~isOrgAdmin /\ ticket.userId # ctx.userId
                  THEN UNCHANGED storeVars /\ Send(Computed(Status(r, 403), isOrgAdmin))
                  ELSE IF hasCategory /\ category.id = None
                  THEN UNCHANGED storeVars /\ Send(Computed(Status(r, 400), isOrgAdmin))
                  ELSE IF NoSuchUser(data.assignedTo)
                  THEN UNCHANGED storeVars /\ Send(Computed(Status(r, 500), isOrgAdmin))
                  ELSE /\ tickets' = (tickets \ {ticket}) \cup {updatedTicket}
                       /\ IF Len(changes) > 0
                          THEN LogTicket({id})
                          ELSE UNCHANGED activityLogs
                       /\ UNCHANGED <<memberships, categories, assignments, comments,
                                      attachments, timeEntries, nextId>>
                       /\ Send([Computed(Touching(r, {ticket.organizationId}), isOrgAdmin)
                                  EXCEPT !.ticketId = id,
                                         !.assignedTo = updatedTicket.assignedTo,
                                         !.changes = changes,
                                         !.notifications =
                                             (IF statusChanged /\ ticket.userId # None
                                              THEN <<[userId |-> ticket.userId,
                                                      type |-> "TICKET_STATUS_CHANGED"]>>
                                              ELSE <<>>)
                                             \o AssignmentNotifications(assigned),
                                         !.emails =
                                             (IF statusChanged /\ submitter # None
                                              THEN <<[to |-> submitter,
                                                      type |-> "TICKET_STATUS_CHANGED"]>>
                                              ELSE <<>>)
                                             \o (IF hasCategory
                                                 THEN AssignmentEmails(assigned)
                                                 ELSE <<>>)])

\* an update whose body carries at most assignedTo and categoryId
UpdateTicket(req, id, assignedTo, categoryId) ==
    UpdateTicketWith(req, id, [NoData EXCEPT !.assignedTo = assignedTo,
                                             !.categoryId = categoryId])

\* DELETE /tickets/:id
DeleteTicket(req, id) ==
    /\ resp = NoResp
    /\ \E chain \in {OrgAdminChain(req)} :
           LET ctx == chain.ctx
               r == Addressing(Response("DeleteTicket", chain), {id})
               ticket == FindTicket(id, ctx.organizationId)
           IN  /\ UNCHANGED frameVars
               /\ IF chain.sentBy # None
                  THEN UNCHANGED storeVars /\ Send(r)
                  ELSE IF ticket = NoRow
                  THEN UNCHANGED storeVars /\ Send(Status(r, 404))
                  ELSE /\ RemoveTickets({id})
                       /\ UNCHANGED <<memberships, categories, assignments, nextId>>
                       /\ Send(Touching(r, {ticket.organizationId}))

\* the COMMENT_ADDED notification rows for the ticket's owner and assignee
CommentNotifications(ticket, userId) ==
    LET owner == IF ticket.userId # None /\ ticket.userId # userId
                 THEN <<[userId |-> ticket.userId, type |-> "COMMENT_ADDED"]>>
                 ELSE <<>>
        assignee == IF /\ ticket.assignedTo # None
                       /\ ticket.assignedTo # userId
                       /\ ~(ticket.userId # None /\ ticket.userId # userId
                            /\ ticket.userId = ticket.assignedTo)
                    THEN <<[userId |-> ticket.assignedTo, type |-> "COMMENT_ADDED"]>>
                    ELSE <<>>
    IN  owner \o assignee

\* POST /tickets/:id/comments
AddComment(req, id) ==
    /\ resp = NoResp
    /\ \E chain \in {MemberChain(req)} :
           LET ctx == chain.ctx
               r == Addressing(Response("AddComment", chain), {id})
               ticket == FindTicket(id, ctx.organizationId)
               comment == [id |-> nextId.comment, ticketId |-> id, userId |-> ctx.userId]
           IN  /\ nextId.comment <= MaxComments
               /\ UNCHANGED frameVars
               /\ IF chain.sentBy # None
                  THEN UNCHANGED storeVars /\ Send(r)
                  ELSE IF ticket = NoRow
                  THEN UNCHANGED storeVars /\ Send(Status(r, 404))
                  ELSE /\ comments' = comments \cup {comment}
                       /\ nextId' = [nextId EXCEPT !.comment = @ + 1]
                       /\ LogTicket({id})
                       /\ UNCHANGED <<memberships, categories, assignments, tickets,
                                      attachments, timeEntries>>
                       /\ Send([Touching(Status(r, 201), {ticket.organizationId})
                                  EXCEPT !.ticketId = id,
                                         !.notifications = CommentNotifications(ticket, ctx.userId),
                                         !.emails = IF ticket.userId # ctx.userId
                                                    THEN <<[to |-> "submitter",
                                                            type |-> "COMMENT_ADDED"]>>
                                                    ELSE <<>>])

\* PUT /tickets/:id/comments/:commentId
EditComment(req, id, commentId) ==
    /\ resp = NoResp
    /\ \E chain \in {MemberChain(req)} :
           LET ctx == chain.ctx
               r == Addressing(Response("EditComment", chain), {id})
               ticket == FindTicket(id, ctx.organizationId)
               comment == FindComment(commentId, id)
           IN  /\ UNCHANGED frameVars
               /\ IF chain.sentBy # None
                  THEN UNCHANGED storeVars /\ Send(r)
                  ELSE IF ticket = NoRow \/ comment = NoRow
                  THEN UNCHANGED storeVars /\ Send(Status(r, 404))
                  ELSE IF comment.userId # ctx.userId
                  THEN UNCHANGED storeVars /\ Send(Status(r, 403))
                  ELSE /\ LogTicket({id})
                       /\ UNCHANGED <<memberships, categories, assignments, tickets, comments,
                                      attachments, timeEntries, nextId>>
                       /\ Send(Touching(r, {ticket.organizationId}))

\* DELETE /tickets/:id/comments/:commentId
DeleteComment(req, id, commentId) ==
    /\ resp = NoResp
    /\ \E chain \in {MemberChain(req)} :
           LET ctx == chain.ctx
               r == Addressing(Response("DeleteComment", chain), {id})
               ticket == FindTicket(id, ctx.organizationId)
               comment == FindComment(commentId, id)
               isOrgAdmin == IsOrgAdminByMembership(ctx)
           IN  /\ UNCHANGED frameVars
               /\ IF chain.sentBy # None
                  THEN UNCHANGED storeVars /\ Send(r)
                  ELSE IF ticket = NoRow \/ comment = NoRow
                  THEN UNCHANGED storeVars /\ Send(Status(r, 404))
                  ELSE IF comment.userId # ctx.userId /\ ~isOrgAdmin
                  THEN UNCHANGED storeVars /\ Send(Computed(Status(r, 403), isOrgAdmin))
                  ELSE /\ comments' = comments \ {comment}
                       /\ attachments' = {a \in attachments : a.commentId # commentId}
                       /\ LogTicket({id})
                       /\ UNCHANGED <<memberships, categories, assignments, tickets,
                                      timeEntries, nextId>>
                       /\ Send(Computed(Touching(r, {ticket.organizationId}), isOrgAdmin))

\* POST /tickets/:id/attachments/public; every ticket has a publicToken
UploadPublicAttachment(req, id) ==
    /\ resp = NoResp
    /\ \E chain \in {PublicChain(req)} :
           LET ctx == chain.ctx
               r == Response("UploadPublicAttachment", chain)
               ticket == FindTicket(id, ctx.organizationId)
               attachment == [id |-> nextId.attachment, ticketId |-> id, commentId |-> 0,
                              uploadedBy |-> None]
           IN  /\ nextId.attachment <= MaxAttachments
               /\ UNCHANGED frameVars
               /\ IF chain.sentBy # None
                  THEN UNCHANGED storeVars /\ Send(r)
                  ELSE IF ticket = NoRow
                  THEN UNCHANGED storeVars /\ Send(Status(r, 404))
                  ELSE /\ attachments' = attachments \cup {attachment}
                       /\ nextId' = [nextId EXCEPT !.attachment = @ + 1]
                       /\ UNCHANGED <<memberships, categories, assignments, tickets, comments,
                                      timeEntries, activityLogs>>
                       /\ Send(Touching(Status(r, 201), {ticket.organizationId}))

\* POST /tickets/:id/attachments
UploadAttachment(req, id) ==
    /\ resp = NoResp
    /\ \E chain \in {MemberChain(req)} :
           LET ctx == chain.ctx
               r == Addressing(Response("UploadAttachment", chain), {id})
               ticket == FindTicket(id, ctx.organizationId)
               attachment == [id |-> nextId.attachment, ticketId |-> id, commentId |-> 0,
                              uploadedBy |-> ctx.userId]
           IN  /\ nextId.attachment <= MaxAttachments
               /\ UNCHANGED frameVars
               /\ IF chain.sentBy # None
                  THEN UNCHANGED storeVars /\ Send(r)
                  ELSE IF ticket = NoRow
                  THEN UNCHANGED storeVars /\ Send(Status(r, 404))
                  ELSE /\ attachments' = attachments \cup {attachment}
                       /\ nextId' = [nextId EXCEPT !.attachment = @ + 1]
                       /\ LogTicket({id})
                       /\ UNCHANGED <<memberships, categories, assignments, tickets, comments,
                                      timeEntries>>
                       /\ Send(Touching(Status(r, 201), {ticket.organizationId}))

\* POST /tickets/:id/comments/:commentId/attachments
UploadCommentAttachment(req, id, commentId) ==
    /\ resp = NoResp
    /\ \E chain \in {MemberChain(req)} :
           LET ctx == chain.ctx
               r == Addressing(Response("UploadCommentAttachment", chain), {id})
               ticket == FindTicket(id, ctx.organizationId)
               comment == FindComment(commentId, id)
               attachment == [id |-> nextId.attachment, ticketId |-> 0,
                              commentId |-> commentId, uploadedBy |-> ctx.userId]
           IN  /\ nextId.attachment <= MaxAttachments
               /\ UNCHANGED frameVars
               /\ IF chain.sentBy # None
                  THEN UNCHANGED storeVars /\ Send(r)
                  ELSE IF ticket = NoRow \/ comment = NoRow
                  THEN UNCHANGED storeVars /\ Send(Status(r, 404))
                  ELSE /\ attachments' = attachments \cup {attachment}
                       /\ nextId' = [nextId EXCEPT !.attachment = @ + 1]
                       /\ UNCHANGED <<memberships, categories, assignments, tickets, comments,
                                      timeEntries, activityLogs>>
                       /\ Send(Touching(Status(r, 201), {ticket.organizationId}))

\* DELETE /tickets/attachments/:attachmentId
DeleteAttachment(req, attachmentId) ==
    /\ resp = NoResp
    /\ \E chain \in {MemberChain(req)} :
           LET ctx == chain.ctx
               attachment == FindAttachment(attachmentId)
               ticketId == AttachmentTicketId(attachment)
               ticketOrgId == TicketOrganizationId(ticketId)
               r == IF attachment = NoRow THEN Response("DeleteAttachment", chain)
                    ELSE Addressing(Response("DeleteAttachment", chain), {ticketId})
               isOrgAdmin == IsOrgAdminByMembership(ctx)
           IN  /\ UNCHANGED frameVars
               /\ IF chain.sentBy # None
                  THEN UNCHANGED storeVars /\ Send(r)
                  ELSE IF attachment = NoRow
                  THEN UNCHANGED storeVars /\ Send(Status(r, 404))
                  ELSE IF ticketOrgId # ctx.organizationId
                  THEN UNCHANGED storeVars /\ Send(Status(r, 403))
                  ELSE IF attachment.uploadedBy # ctx.userId /\ ~isOrgAdmin
                  THEN UNCHANGED storeVars /\ Send(Computed(Status(r, 403), isOrgAdmin))
                  ELSE /\ attachments' = attachments \ {attachment}
                       /\ LogTicket({ticketId})
                       /\ UNCHANGED <<memberships, categories, assignments, tickets, comments,
                                      timeEntries, nextId>>
                       /\ Send(Computed(Touching(r, {ticketOrgId}), isOrgAdmin))

\* GET /tickets/attachments/:attachmentId/file
GetAttachmentFile(req, attachmentId) ==
    /\ resp = NoResp
    /\ \E chain \in {MemberChain(req)} :
           LET ctx == chain.ctx
               attachment == FindAttachment(attachmentId)
               ticketId == AttachmentTicketId(attachment)
               ticketOrgId == TicketOrganizationId(ticketId)
               r == IF attachment = NoRow THEN Response("GetAttachmentFile", chain)
                    ELSE Addressing(Response("GetAttachmentFile", chain), {ticketId})
           IN  /\ UNCHANGED <<frameVars, storeVars>>
               /\ Send(IF chain.sentBy # None THEN r
                       ELSE IF attachment = NoRow THEN Status(r, 404)
                       ELSE IF ticketOrgId # ctx.organizationId THEN Status(r, 403)
                       ELSE Touching(r, {ticketOrgId}))

\* the elements of a list of ids
Range(s) == {s[i] : i \in 1..Len(s)}

\* a store whose tickets.statusId references nothing
tickets_statusId_unconstrained(statusId) == FALSE

\* the rows tickets_statusId_fkey ... ON DELETE RESTRICT keeps the status for
tickets_statusId_fkey(statusId) == \E t \in tickets : t.statusId = statusId

\* a write of tickets.statusId that the foreign key rejects
NoSuchStatus(statusId) ==
    statusId \notin {Absent, None} /\ ~\E st \in statuses : st.id = statusId

\* the bulk 'update' and 'assign' writes: updateMany({ where: { id: { in } }, data })
BulkWrite(ids, data) ==
    tickets' = {IF t.id \in ids
                THEN [t EXCEPT
                        !.assignedTo = IF data.assignedTo # Absent
                                       THEN data.assignedTo ELSE @,
                        !.organizationId = IF data.organizationId # Absent
                                           THEN data.organizationId ELSE @,
                        !.userId = IF data.userId # Absent THEN data.userId ELSE @,
                        !.statusId = IF data.statusId # Absent THEN data.statusId ELSE @]
                ELSE t : t \in tickets}

\* POST /tickets/bulk with the data fields assignedTo, organizationId, userId
\* and statusId
BulkTickets(req, ticketIds, action, data) ==
    /\ resp = NoResp
    /\ \E chain \in {MemberChain(req)} :
           LET ctx == chain.ctx
               ids == Range(ticketIds)
               r == Addressing(Response("BulkTickets", chain), ids)
               isOrgAdmin == IsOrgAdminByMembership(ctx)
               rows == {t \in tickets : t.id \in ids /\ t.organizationId = ctx.organizationId}
               written == {t \in tickets : t.id \in ids}
               done == Computed(Touching(r, {t.organizationId : t \in written}), isOrgAdmin)
           IN  /\ UNCHANGED frameVars
               /\ IF chain.sentBy # None
                  THEN UNCHANGED storeVars /\ Send(r)
                  ELSE IF ~isOrgAdmin
                  THEN UNCHANGED storeVars /\ Send(Computed(Status(r, 403), isOrgAdmin))
                  ELSE IF Cardinality(rows) # Len(ticketIds)
                  THEN UNCHANGED storeVars /\ Send(Computed(Status(r, 400), isOrgAdmin))
                  ELSE IF action = "update" /\ NoSuchStatus(data.statusId)
                  THEN UNCHANGED storeVars /\ Send(Computed(Status(r, 500), isOrgAdmin))
                  ELSE IF action = "update"
                  THEN /\ BulkWrite(ids, data)
                       /\ LogTicket(ids)
                       /\ UNCHANGED <<memberships, categories, assignments, comments,
                                      attachments, timeEntries, nextId>>
                       /\ Send(done)
                  ELSE IF action = "delete"
                  THEN /\ RemoveTickets(ids)
                       /\ UNCHANGED <<memberships, categories, assignments, nextId>>
                       /\ Send(done)
                  ELSE IF action = "assign"
                  THEN /\ BulkWrite(ids, [assignedTo |-> IF data.assignedTo = Absent THEN None
                                                         ELSE data.assignedTo,
                                          organizationId |-> Absent,
                                          userId |-> Absent, statusId |-> Absent])
                       /\ LogTicket(ids)
                       /\ UNCHANGED <<memberships, categories, assignments, comments,
                                      attachments, timeEntries, nextId>>
                       /\ Send(done)
                  ELSE /\ LogTicket(ids)
                       /\ UNCHANGED <<memberships, categories, assignments, tickets, comments,
                                      attachments, timeEntries, nextId>>
                       /\ Send(done)

\* GET /tickets/:id/activity
GetActivity(req, id) ==
    /\ resp = NoResp
    /\ \E chain \in {MemberChain(req)} :
           LET ctx == chain.ctx
               r == Addressing(Response("GetActivity", chain), {id})
               ticket == FindTicket(id, ctx.organizationId)
           IN  /\ UNCHANGED <<frameVars, storeVars>>
               /\ Send(IF chain.sentBy # None THEN r
                       ELSE IF ticket = NoRow THEN Status(r, 404)
                       ELSE Touching(r, {TicketOrganizationId(i) : i \in activityLogs \cap {id}}))

\* POST /tickets/:id/time
AddTimeEntry(req, id) ==
    /\ resp = NoResp
    /\ \E chain \in {MemberChain(req)} :
           LET ctx == chain.ctx
               r == Addressing(Response("AddTimeEntry", chain), {id})
               ticket == FindTicket(id, ctx.organizationId)
               timeEntry == [id |-> nextId.timeEntry, ticketId |-> id, userId |-> ctx.userId]
           IN  /\ nextId.timeEntry <= MaxTimeEntries
               /\ UNCHANGED frameVars
               /\ IF chain.sentBy # None
                  THEN UNCHANGED storeVars /\ Send(r)
                  ELSE IF ticket = NoRow
                  THEN UNCHANGED storeVars /\ Send(Status(r, 404))
                  ELSE /\ timeEntries' = timeEntries \cup {timeEntry}
                       /\ nextId' = [nextId EXCEPT !.timeEntry = @ + 1]
                       /\ LogTicket({id})
                       /\ UNCHANGED <<memberships, categories, assignments, tickets, comments,
                                      attachments>>
                       /\ Send(Touching(Status(r, 201), {ticket.organizationId}))

\* GET /tickets/:id/time
GetTimeEntries(req, id) ==
    /\ resp = NoResp
    /\ \E chain \in {MemberChain(req)} :
           LET ctx == chain.ctx
               r == Addressing(Response("GetTimeEntries", chain), {id})
               ticket == FindTicket(id, ctx.organizationId)
           IN  /\ UNCHANGED <<frameVars, storeVars>>
               /\ Send(IF chain.sentBy # None THEN r
                       ELSE IF ticket = NoRow THEN Status(r, 404)
                       ELSE Touching(r, {TicketOrganizationId(e.ticketId) :
                                            e \in {x \in timeEntries : x.ticketId = id}}))

\* DELETE /tickets/time/:timeEntryId
DeleteTimeEntry(req, timeEntryId) ==
    /\ resp = NoResp
    /\ \E chain \in {MemberChain(req)} :
           LET ctx == chain.ctx
               timeEntry == FindTimeEntry(timeEntryId)
               ticketOrgId == TicketOrganizationId(timeEntry.ticketId)
               r == IF timeEntry = NoRow THEN Response("DeleteTimeEntry", chain)
                    ELSE Addressing(Response("DeleteTimeEntry", chain), {timeEntry.ticketId})
               isOrgAdmin == IsOrgAdminByMembership(ctx)
           IN  /\ UNCHANGED frameVars
               /\ IF chain.sentBy # None
                  THEN UNCHANGED storeVars /\ Send(r)
                  ELSE IF timeEntry = NoRow
                  THEN UNCHANGED storeVars /\ Send(Status(r, 404))
                  ELSE IF ticketOrgId # ctx.organizationId
                  THEN UNCHANGED storeVars /\ Send(Status(r, 403))
                  ELSE IF timeEntry.userId # ctx.userId /\ ~isOrgAdmin
                  THEN UNCHANGED storeVars /\ Send(Computed(Status(r, 403), isOrgAdmin))
                  ELSE /\ timeEntries' = timeEntries \ {timeEntry}
                       /\ LogTicket({timeEntry.ticketId})
                       /\ UNCHANGED <<memberships, categories, assignments, tickets, comments,
                                      attachments, nextId>>
                       /\ Send(Computed(Touching(r, {ticketOrgId}), isOrgAdmin))

\* GET /organizations/:orgSlug
GetOrganization(req) ==
    /\ resp = NoResp
    /\ \E chain \in {OrgSlugMemberChain(req)} :
           LET r == Response("GetOrganization", chain)
           IN  /\ UNCHANGED <<frameVars, storeVars>>
               /\ Send(r)

\* the response has gone out and the next request can arrive
SendResponse ==
    /\ resp # NoResp
    /\ resp' = NoResp
    /\ mail' = <<>>
    /\ UNCHANGED <<frameVars, storeVars>>

(***************************************************************************)
(* Specification Spec: the ticket routes and GET /organizations/:orgSlug   *)
(* serving requests one after another, from the seeded store.  The actors  *)
(* are u1 (global USER), u2 (global ADMIN) and u3 (global SUPERADMIN); the  *)
(* token carries no organization and the header X-Organization-Slug names  *)
(* the tenant.  The ticket list and the organization route also take u4    *)
(* (global USER), tokens that carry o2 and requests that name no tenant.   *)
(***************************************************************************)
Actors == {[userId |-> "u1", role |-> "USER"],
           [userId |-> "u2", role |-> "ADMIN"],
           [userId |-> "u3", role |-> "SUPERADMIN"]}

AllActors == Actors \cup {[userId |-> "u4", role |-> "USER"]}

Token(a, organizationId) ==
    [userId |-> a.userId, role |-> a.role, organizationId |-> organizationId]

HeaderAc == <<"a", "c">>
HeaderB == <<" ", "b", "_">>

TicketRequests ==
    {Request(<<>>, <<>>, <<>>, x, Token(a, None)) : x \in {HeaderAc, HeaderB}, a \in Actors}
    \cup {Request(<<>>, <<>>, <<>>, HeaderAc, NoToken)}

AllTicketRequests ==
    {Request(<<>>, <<>>, <<>>, x, token) :
        x \in {<<>>, HeaderAc, HeaderB},
        token \in {NoToken} \cup {Token(a, o) : a \in AllActors, o \in {None, "o2"}}}

PublicRequests == {Request(<<>>, <<>>, <<>>, x, NoToken) : x \in {<<>>, HeaderAc, HeaderB}}

OrgSlugRequests ==
    {Request(<<>>, p, <<>>, <<>>, token) :
        p \in {<<"-", "-">>, HeaderAc},
        token \in {NoToken} \cup {Token(a, o) : a \in AllActors, o \in {None, "o2"}}}

TicketIds == 1..MaxTickets
CommentIds == 1..MaxComments
AttachmentIds == 1..MaxAttachments
TimeEntryIds == 1..MaxTimeEntries

CategoryInputs == {None, "c1"}

\* candidates of generateSimpleToken
Tokens == {"T1", "T2"}

\* req.query.token of a tracking request
TrackTokens == {None} \cup Tokens

\* tracking requests: anonymous, or with the token of a member of o1
TrackRequests ==
    {Request(<<>>, <<>>, <<>>, HeaderAc, token) :
        token \in {NoToken, Token([userId |-> "u1", role |-> "USER"], None)}}

\* submitterName and submitterEmail of a request body
NoSubmitter == [name |-> Absent, email |-> Absent]
Submitters == {NoSubmitter, [name |-> "s1", email |-> "s1"]}
UpdateAssignedTo == {Absent, "u1"}
UpdateCategoryId == {Absent, None, "c1"}

\* ticketIds of a bulk request: no id, one id, two ids that may be the same
BulkTicketIds == {<<>>} \cup {<<i>> : i \in TicketIds}
                        \cup {<<i, j>> : i \in TicketIds, j \in TicketIds}

BulkData == {[assignedTo |-> "u1", organizationId |-> Absent, userId |-> Absent, statusId |-> Absent],
             [assignedTo |-> Absent, organizationId |-> "o2", userId |-> Absent, statusId |-> Absent]}

\* data that names another tenant than the caller's, or clears the owner
BulkDataOfFields ==
    BulkData \cup {[assignedTo |-> Absent, organizationId |-> "o1", userId |-> Absent, statusId |-> Absent],
                   [assignedTo |-> Absent, organizationId |-> Absent, userId |-> None, statusId |-> Absent]}

BulkInputs == {<<"update", d>> : d \in BulkData}
              \cup {<<"assign", d>> : d \in {d \in BulkData : d.assignedTo # Absent}}
              \cup {<<a, [assignedTo |-> Absent, organizationId |-> Absent,
                          userId |-> Absent, statusId |-> Absent]>> :
                       a \in {"delete", "changeStatus", "changePriority"}}

Init ==
    /\ NormIdle
    /\ ResolveIdle
    /\ mainAppHost = SeedMainAppHost
    /\ organizations = SeedOrganizations
    /\ SeedStore

Next ==
    \/ \E req \in AllTicketRequests : ListTickets(req)
    \/ \E req \in TicketRequests, id \in TicketIds : GetTicket(req, id)
    \/ \E req \in TrackRequests, token \in TrackTokens : TrackTicket(req, token)
    \/ \E req \in TicketRequests, categoryId \in CategoryInputs, submitter \in Submitters :
           CreateTicket(req, categoryId, "T1", submitter) /\ UNCHANGED inflight
    \/ \E req \in PublicRequests, categoryId \in CategoryInputs, submitter \in Submitters :
           CreatePublicTicket(req, categoryId, "T1", submitter) /\ UNCHANGED inflight
    \/ \E req \in TicketRequests, id \in TicketIds,
          assignedTo \in UpdateAssignedTo, categoryId \in UpdateCategoryId :
           UpdateTicket(req, id, assignedTo, categoryId)
    \/ \E req \in TicketRequests, id \in TicketIds : DeleteTicket(req, id)
    \/ \E req \in TicketRequests, id \in TicketIds : AddComment(req, id)
    \/ \E req \in TicketRequests, id \in TicketIds, commentId \in CommentIds :
           EditComment(req, id, commentId)
    \/ \E req \in TicketRequests, id \in TicketIds, commentId \in CommentIds :
           DeleteComment(req, id, commentId)
    \/ \E req \in PublicRequests, id \in TicketIds : UploadPublicAttachment(req, id)
    \/ \E req \in TicketRequests, id \in TicketIds : UploadAttachment(req, id)
    \/ \E req \in TicketRequests, id \in TicketIds, commentId \in CommentIds :
           UploadCommentAttachment(req, id, commentId)
    \/ \E req \in TicketRequests, attachmentId \in AttachmentIds :
           DeleteAttachment(req, attachmentId)
    \/ \E req \in TicketRequests, attachmentId \in AttachmentIds :
           GetAttachmentFile(req, attachmentId)
    \/ \E req \in TicketRequests, ticketIds \in BulkTicketIds, input \in BulkInputs :
           BulkTickets(req, ticketIds, input[1], input[2])
    \/ \E req \in TicketRequests, id \in TicketIds : GetActivity(req, id)
    \/ \E req \in TicketRequests, id \in TicketIds : AddTimeEntry(req, id)
    \/ \E req \in TicketRequests, id \in TicketIds : GetTimeEntries(req, id)
    \/ \E req \in TicketRequests, timeEntryId \in TimeEntryIds :
           DeleteTimeEntry(req, timeEntryId)
    \/ \E req \in OrgSlugRequests : GetOrganization(req)
    \/ SendResponse

Spec == Init /\ [][Next]_vars

(***************************************************************************)
(* The category-assignment routes, which build the tables that ticket      *)
(* creation reads.  A new assignment row is returned after the older ones. *)
(***************************************************************************)
\* prisma.userCategoryAssignment.findUnique({ where: { userId_categoryId } })
FindAssignment(userId, categoryId) ==
    FirstRow(assignments,
             {i \in 1..Len(assignments) :
                 /\ assignments[i].userId = userId
                 /\ assignments[i].categoryId = categoryId})

\* POST /categories/:id/assign-user
AssignUser(req, categoryId, userId) ==
    /\ resp = NoResp
    /\ \E chain \in {OrgAdminChain(req)} :
           LET ctx == chain.ctx
               r == Response("AssignUser", chain)
               category == FindCategory(categoryId, ctx.organizationId)
               userOrg == FindMembership(userId, ctx.organizationId)
               existingAssignment == FindAssignment(userId, categoryId)
           IN  /\ UNCHANGED frameVars
               /\ IF chain.sentBy # None
                  THEN UNCHANGED storeVars /\ Send(r)
                  ELSE IF category = NoRow \/ userOrg = NoRow
                  THEN UNCHANGED storeVars /\ Send(Status(r, 404))
                  ELSE IF existingAssignment # NoRow
                  THEN UNCHANGED storeVars /\ Send(Status(r, 400))
                  ELSE /\ assignments' = Append(assignments,
                                                [userId |-> userId, categoryId |-> categoryId,
                                                 organizationId |-> ctx.organizationId])
                       /\ UNCHANGED <<memberships, categories, tickets, comments, attachments,
                                      timeEntries, activityLogs, nextId>>
                       /\ Send(Status(r, 201))

\* DELETE /categories/:id/assign-user/:userId
RemoveAssignment(req, categoryId, userId) ==
    /\ resp = NoResp
    /\ \E chain \in {OrgAdminChain(req)} :
           LET ctx == chain.ctx
               r == Response("RemoveAssignment", chain)
               category == FindCategory(categoryId, ctx.organizationId)
               assignment == FindAssignment(userId, categoryId)
           IN  /\ UNCHANGED frameVars
               /\ IF chain.sentBy # None
                  THEN UNCHANGED storeVars /\ Send(r)
                  ELSE IF category = NoRow \/ assignment = NoRow
                  THEN UNCHANGED storeVars /\ Send(Status(r, 404))
                  ELSE /\ assignments' = SelectSeq(assignments, LAMBDA a : a # assignment)
                       /\ UNCHANGED <<memberships, categories, tickets, comments, attachments,
                                      timeEntries, activityLogs, nextId>>
                       /\ Send(r)

(***************************************************************************)
(* Specification SpecAssign: category assignments are added and removed by *)
(* the org admins, and tickets are created, by members and by anonymous    *)
(* submitters, in every category and in none.                              *)
(***************************************************************************)
AssignCategoryInputs == {None, "c1", "c2", "c3"}
AssignableCategories == {"c1", "c2"}
AssignableUsers == {"u1", "u2", "u3"}

NextAssign ==
    \/ \E req \in TicketRequests, categoryId \in AssignCategoryInputs :
           CreateTicket(req, categoryId, "T1", NoSubmitter) /\ UNCHANGED inflight
    \/ \E req \in PublicRequests, categoryId \in AssignCategoryInputs :
           CreatePublicTicket(req, categoryId, "T1", [name |-> "s1", email |-> "s1"]) /\ UNCHANGED inflight
    \/ \E req \in TicketRequests, categoryId \in AssignableCategories,
          userId \in AssignableUsers :
           AssignUser(req, categoryId, userId)
    \/ \E req \in TicketRequests, categoryId \in AssignableCategories,
          userId \in AssignableUsers :
           RemoveAssignment(req, categoryId, userId)
    \/ SendResponse

SpecAssign == Init /\ [][NextAssign]_vars

(***************************************************************************)
(* Specification SpecFields: the routes that create, rewrite, delete and   *)
(* track tickets, with both token candidates, request bodies with and      *)
(* without submitter fields, and bulk data that names any column.          *)
(***************************************************************************)
NextFields ==
    \/ \E req \in TicketRequests, categoryId \in CategoryInputs,
          publicToken \in Tokens, submitter \in Submitters :
           CreateTicket(req, categoryId, publicToken, submitter) /\ UNCHANGED inflight
    \/ \E req \in PublicRequests, categoryId \in CategoryInputs,
          publicToken \in Tokens, submitter \in Submitters :
           CreatePublicTicket(req, categoryId, publicToken, submitter) /\ UNCHANGED inflight
    \/ \E req \in TicketRequests, id \in TicketIds,
          assignedTo \in UpdateAssignedTo, categoryId \in UpdateCategoryId :
           UpdateTicket(req, id, assignedTo, categoryId)
    \/ \E req \in TicketRequests, ticketIds \in BulkTicketIds, data \in BulkDataOfFields :
           BulkTickets(req, ticketIds, "update", data)
    \/ \E req \in TicketRequests, id \in TicketIds : DeleteTicket(req, id)
    \/ \E req \in TrackRequests, token \in TrackTokens : TrackTicket(req, token)
    \/ SendResponse

SpecFields == Init /\ [][NextFields]_vars

(***************************************************************************)
(* Email.  sendEmail resolves, rejects (the transport is not configured,   *)
(* the recipient is inactive, or the transport refuses the message) or     *)
(* stays pending.  The ticket routes start their sends and go on to the    *)
(* response; the rejection is logged inside the send function and by the   *)
(* .catch of the call.  POST /auth/forgot-password and POST                *)
(* /auth/request-otp await their one send: the handler is suspended, with  *)
(* the response it is about to send in waiting, until the send settles,    *)
(* and a rejection reaches the handler's catch.                            *)
(***************************************************************************)
\* prisma.user.findUnique({ where: { email } })
FindUserByEmail(email) == OneRow({u \in users : u.email = email})

AuthResponse(route, status) ==
    [NoResp EXCEPT !.route = route, !.status = status, !.sentBy = "handler"]

\* POST /auth/forgot-password up to its await of sendPasswordResetEmail
ForgotPassword(email) ==
    /\ resp = NoResp
    /\ waiting = NoResp
    /\ UNCHANGED <<normVars, configVars, resolveVars, notifications, users, statuses, loginOTPs,
                   inflight, storeVars>>
    /\ IF FindUserByEmail(email) = NoRow
       THEN /\ Send(AuthResponse("ForgotPassword", 200))
            /\ UNCHANGED <<passwordResets, waiting>>
       ELSE /\ passwordResets' = passwordResets \cup {email}
            /\ mail' = <<Started([to |-> email, type |-> "PASSWORD_RESET"])>>
            /\ waiting' = AuthResponse("ForgotPassword", 200)
            /\ UNCHANGED resp

\* POST /auth/request-otp up to its await of sendLoginOTPEmail
\* Math.floor(100000 + Math.random() * 900000).toString()
Otps == {"111111", "222222"}

\* the ids of login_otps rows: each new row gets one that no row and no
\* request in flight holds
OtpIds == 1..8

FreshOtpId ==
    CHOOSE n \in OtpIds :
        /\ \A i \in 1..Len(loginOTPs) : loginOTPs[i].id # n
        /\ \A p \in Connections : inflight[p].pc = "markUsed" => inflight[p].otpId # n
        /\ \A k \in 1..(n - 1) :
               \/ \E i \in 1..Len(loginOTPs) : loginOTPs[i].id = k
               \/ \E p \in Connections : inflight[p].pc = "markUsed" /\ inflight[p].otpId = k

\* prisma.loginOTP.deleteMany({ where: { email } })
DeleteOtps(email) == SelectSeq(loginOTPs, LAMBDA o : o.email # email)

\* prisma.loginOTP.create({ data: { email, otp, expiresAt } })
NewOtp(email, otp) ==
    [id |-> FreshOtpId, email |-> email, otp |-> otp, used |-> FALSE, expired |-> FALSE]

RequestOtp(email, isValidPassword, otp) ==
    /\ resp = NoResp
    /\ waiting = NoResp
    /\ UNCHANGED <<normVars, configVars, resolveVars, notifications, users, statuses, passwordResets,
                   inflight, storeVars>>
    /\ IF FindUserByEmail(email) = NoRow \/ ~isValidPassword
       THEN /\ Send(AuthResponse("RequestOtp", 401))
            /\ UNCHANGED <<loginOTPs, waiting>>
       ELSE /\ loginOTPs' = Append(DeleteOtps(email), NewOtp(email, otp))
            /\ mail' = <<Started([to |-> email, type |-> "LOGIN_OTP"])>>
            /\ waiting' = AuthResponse("RequestOtp", 200)
            /\ UNCHANGED resp

MailErrors == {"not configured", "inactive recipient", "refused"}

\* the status of the catch block that a rejected, awaited send reaches
Rejected(route, error) ==
    IF route = "RequestOtp" /\ error = "inactive recipient" THEN 422 ELSE 500

\* sendEmail resolves
MailSent(i) ==
    /\ i \in DOMAIN mail
    /\ mail[i].state = "pending"
    /\ mail' = [mail EXCEPT ![i].state = "sent"]
    /\ IF waiting # NoResp
       THEN resp' = waiting /\ waiting' = NoResp
       ELSE UNCHANGED <<resp, waiting>>
    /\ UNCHANGED <<normVars, configVars, resolveVars, accountVars, inflight, storeVars>>

\* sendEmail rejects
MailFailed(i, error) ==
    /\ i \in DOMAIN mail
    /\ mail[i].state = "pending"
    /\ mail' = [mail EXCEPT ![i].state = "failed"]
    /\ IF waiting # NoResp
       THEN resp' = Status(waiting, Rejected(waiting.route, error)) /\ waiting' = NoResp
       ELSE UNCHANGED <<resp, waiting>>
    /\ UNCHANGED <<normVars, configVars, resolveVars, accountVars, inflight, storeVars>>

(***************************************************************************)
(* Specification SpecMail: the four ticket routes that send email and the  *)
(* two auth routes that await it, one request at a time, with the          *)
(* transport settling the pending sends in any order or not at all.        *)
(***************************************************************************)
MailRequests ==
    {Request(<<>>, <<>>, <<>>, HeaderAc, Token(a, None)) :
        a \in {[userId |-> "u1", role |-> "USER"], [userId |-> "u4", role |-> "USER"]}}

\* u9 has no account
MailAddresses == {"u1", "u9"}

MaxMails == 3

NextMail ==
    \/ \E req \in MailRequests, categoryId \in {None, "c1"} :
           /\ waiting = NoResp
           /\ CreateTicket(req, categoryId, "T1", NoSubmitter)
           /\ UNCHANGED inflight
    \/ \E categoryId \in {None, "c1"} :
           /\ waiting = NoResp
           /\ CreatePublicTicket(Request(<<>>, <<>>, <<>>, HeaderAc, NoToken), categoryId,
                                 "T1", [name |-> "s1", email |-> "s1"])
           /\ UNCHANGED inflight
    \/ \E req \in MailRequests, assignedTo \in {Absent, "u2"}, categoryId \in {Absent, "c1"} :
           waiting = NoResp /\ UpdateTicket(req, 1, assignedTo, categoryId)
    \/ \E req \in MailRequests : waiting = NoResp /\ AddComment(req, 1)
    \/ \E email \in MailAddresses : ForgotPassword(email)
    \/ \E email \in MailAddresses, isValidPassword \in BOOLEAN, otp \in Otps :
           RequestOtp(email, isValidPassword, otp)
    \/ \E i \in 1..MaxMails : MailSent(i)
    \/ \E i \in 1..MaxMails, error \in MailErrors : MailFailed(i, error)
    \/ SendResponse

SpecMail == Init /\ [][NextMail]_vars

(***************************************************************************)
(* Signup and the organization routes.  organizations.slug and             *)
(* organizations.subdomain are unique keys, and so is the pair (userId,    *)
(* organizationId) of user_organizations; an insert that repeats one is    *)
(* refused with P2002.  POST /organizations is suspended between its two   *)
(* look-ups and its inserts, so that two creations can pass the look-ups   *)
(* before either inserts.  Subdomains are left out of the requests.        *)
(***************************************************************************)
MaxOrganizations == 4
MaxMemberships == 7
MaxUsers == 5

OrganizationIds == <<"o1", "o2", "o3", "o4", "o5">>
MembershipIds == <<"m1", "m2", "m3", "m4", "m5", "m6", "m7", "m8">>
UserIds == <<"u1", "u2", "u3", "u4", "u5", "u6">>

\* slug.toLowerCase().replace(/[^a-z0-9-]/g, '-')
StoredSlug(slug) == ReplaceInvalid(ToLowerCase(slug))

\* prisma.organization.findUnique({ where: { slug } })
FindOrganizationBySlug(slug) ==
    FirstRow(organizations, {i \in 1..Len(organizations) : organizations[i].slug = slug})

\* the unique key on organizations.slug refuses the insert (P2002)
organizations_slug_key(slug) == FindOrganizationBySlug(slug) # NoRow

\* prisma.userOrganization.findFirst({ where: { userId, role: 'ADMIN' } })
FindAdminMembership(userId) ==
    FirstRow(memberships, {i \in 1..Len(memberships) :
                              /\ memberships[i].userId = userId
                              /\ memberships[i].role = "ADMIN"})

NewOrganization(slug) ==
    [id |-> OrganizationIds[Len(organizations) + 1], slug |-> slug, subdomain |-> <<>>]

NewMembership(userId, organizationId, role) ==
    [id |-> MembershipIds[Len(memberships) + 1], userId |-> userId,
     organizationId |-> organizationId, role |-> role]

\* authenticate alone
AuthChain(req) ==
    LET a == authenticate(req, NoCtx)
    IN  IF a.status # 0 THEN Answered(a, "authenticate") ELSE Answered(a, None)

\* POST /auth/signup; organizationSlug is the empty string when the body
\* has no organization.  The new user has no membership, so the look-up for an
\* ADMIN membership after prisma.user.create finds none.
Signup(email, organizationSlug) ==
    /\ resp = NoResp
    /\ Cardinality(users) < MaxUsers
    /\ Len(organizations) < MaxOrganizations
    /\ Len(memberships) < MaxMemberships
    /\ LET r == AuthResponse("Signup", 201)
           user == [id |-> UserIds[Cardinality(users) + 1], email |-> email, role |-> "USER"]
           organization == NewOrganization(StoredSlug(organizationSlug))
       IN  /\ UNCHANGED <<normVars, resolveVars, mainAppHost, notifications, statuses, passwordResets,
                          loginOTPs, inflight, waiting, categories, assignments, tickets,
                          comments, attachments, timeEntries, activityLogs, nextId>>
           /\ IF FindUserByEmail(email) # NoRow
              THEN /\ UNCHANGED <<users, organizations, memberships>>
                   /\ Send(Status(r, 400))
              ELSE IF organizationSlug = <<>>
              THEN /\ users' = users \cup {user}
                   /\ UNCHANGED <<organizations, memberships>>
                   /\ Send(r)
              ELSE IF FindOrganizationBySlug(organizationSlug) # NoRow
              THEN /\ UNCHANGED <<users, organizations, memberships>>
                   /\ Send(Conflict(Status(r, 400)))
              ELSE IF organizations_slug_key(organization.slug)
              THEN /\ UNCHANGED <<users, organizations, memberships>>
                   /\ Send(Conflict(Status(r, 500)))
              ELSE /\ users' = users \cup {user}
                   /\ IF FindAdminMembership(user.id) # NoRow
                      THEN /\ UNCHANGED <<organizations, memberships>>
                           /\ Send(Status(r, 400))
                      ELSE /\ organizations' = Append(organizations, organization)
                           /\ memberships' = Append(memberships,
                                  NewMembership(user.id, organization.id, "ADMIN"))
                           /\ Send([r EXCEPT !.userId = user.id,
                                             !.organizationId = organization.id,
                                             !.rawSlug = organizationSlug])

\* POST /organizations up to its await of prisma.organization.create
CheckOrganization(p, req, slug) ==
    /\ resp = NoResp
    /\ inflight[p] = Idle
    /\ \E chain \in {AuthChain(req)} :
           LET ctx == chain.ctx
               r == Response("CreateOrganization", chain)
           IN  /\ UNCHANGED <<restVars, storeVars>>
               /\ IF chain.sentBy # None
                  THEN Send(r) /\ UNCHANGED inflight
                  ELSE IF FindAdminMembership(ctx.userId) # NoRow
                  THEN Send(Status(r, 400)) /\ UNCHANGED inflight
                  ELSE IF FindOrganizationBySlug(StoredSlug(slug)) # NoRow
                  THEN Send(Conflict(Status(r, 400))) /\ UNCHANGED inflight
                  ELSE /\ inflight' = [inflight EXCEPT ![p] =
                                          [pc |-> "create", slug |-> StoredSlug(slug),
                                           r |-> [r EXCEPT !.rawSlug = slug]]]
                       /\ UNCHANGED <<resp, mail>>

\* prisma.organization.create, prisma.userOrganization.create and the response
InsertOrganization(p) ==
    /\ resp = NoResp
    /\ inflight[p].pc = "create"
    /\ Len(organizations) < MaxOrganizations
    /\ Len(memberships) < MaxMemberships
    /\ LET r == inflight[p].r
           organization == NewOrganization(inflight[p].slug)
       IN  /\ UNCHANGED <<normVars, resolveVars, mainAppHost, accountVars, waiting,
                          categories, assignments, tickets, comments, attachments,
                          timeEntries, activityLogs, nextId>>
           /\ inflight' = [inflight EXCEPT ![p] = Idle]
           /\ IF organizations_slug_key(organization.slug)
              THEN /\ UNCHANGED <<organizations, memberships>>
                   /\ Send(Conflict(Status([r EXCEPT !.rawSlug = <<>>], 400)))
              ELSE /\ organizations' = Append(organizations, organization)
                   /\ memberships' = Append(memberships,
                          NewMembership(r.userId, organization.id, "ADMIN"))
                   /\ Send([Status(r, 201) EXCEPT !.organizationId = organization.id])

\* POST /organizations/:orgSlug/members
AddMember(req, email, role) ==
    /\ resp = NoResp
    /\ Len(memberships) < MaxMemberships
    /\ \E chain \in {OrgSlugAdminChain(req)} :
           LET ctx == chain.ctx
               r == Response("AddMember", chain)
               user == FindUserByEmail(email)
           IN  /\ UNCHANGED <<frameVars, categories, assignments, tickets, comments,
                              attachments, timeEntries, activityLogs, nextId>>
               /\ IF chain.sentBy # None
                  THEN UNCHANGED memberships /\ Send(r)
                  ELSE IF user = NoRow
                  THEN UNCHANGED memberships /\ Send(Status(r, 404))
                  ELSE IF FindMembership(user.id, ctx.organizationId) # NoRow
                  THEN UNCHANGED memberships /\ Send(Conflict(Status(r, 400)))
                  ELSE /\ memberships' = Append(memberships,
                              NewMembership(user.id, ctx.organizationId, role))
                       /\ Send(Status(r, 201))

\* PUT /organizations/:orgSlug/members/:userId
UpdateMemberRole(req, targetUserId, role) ==
    /\ resp = NoResp
    /\ \E chain \in {OrgSlugAdminChain(req)} :
           LET ctx == chain.ctx
               r == Response("UpdateMemberRole", chain)
               userOrg == FindMembership(targetUserId, ctx.organizationId)
           IN  /\ UNCHANGED <<frameVars, categories, assignments, tickets, comments,
                              attachments, timeEntries, activityLogs, nextId>>
               /\ IF chain.sentBy # None
                  THEN UNCHANGED memberships /\ Send(r)
                  ELSE IF userOrg = NoRow
                  THEN UNCHANGED memberships /\ Send(Status(r, 404))
                  ELSE /\ memberships' =
                              [i \in 1..Len(memberships) |->
                                  IF memberships[i].id = userOrg.id
                                  THEN [memberships[i] EXCEPT !.role = role]
                                  ELSE memberships[i]]
                       /\ Send(r)

\* DELETE /organizations/:orgSlug/members/:userId
RemoveMember(req, targetUserId) ==
    /\ resp = NoResp
    /\ \E chain \in {OrgSlugAdminChain(req)} :
           LET ctx == chain.ctx
               r == Response("RemoveMember", chain)
               userOrg == FindMembership(targetUserId, ctx.organizationId)
           IN  /\ UNCHANGED <<frameVars, categories, assignments, tickets, comments,
                              attachments, timeEntries, activityLogs, nextId>>
               /\ IF chain.sentBy # None
                  THEN UNCHANGED memberships /\ Send(r)
                  ELSE IF userOrg = NoRow
                  THEN UNCHANGED memberships /\ Send(Status(r, 404))
                  ELSE /\ memberships' =
                              SelectSeq(memberships, LAMBDA mb : mb.id # userOrg.id)
                       /\ Send(r)

(***************************************************************************)
(* Specification SpecOrgs: signup, organization creation on two            *)
(* connections, add-member and update-member-role, from the seeded store.  *)
(* The callers are u4 (ADMIN of o1), u1 (MEMBER of o1, ADMIN of o2) and u2  *)
(* (MEMBER of o1); the member routes name o1.                              *)
(***************************************************************************)
OrgActors == {[userId |-> "u4", role |-> "USER"], [userId |-> "u1", role |-> "USER"],
              [userId |-> "u2", role |-> "ADMIN"]}

CreateOrgRequests ==
    {Request(<<>>, <<>>, <<>>, <<>>, Token(a, None)) : a \in OrgActors}

MemberRequests ==
    {Request(<<>>, HeaderAc, <<>>, <<>>, Token(a, None)) : a \in OrgActors}

\* "ac" is the slug of o1, which "AC" is stored as; "-z" and "--" are
\* stored as typed
NewSlugs == {<<"a", "c">>, <<"A", "C">>, <<"z", "z">>, <<"x", "1">>,
             <<"-", "z">>, <<"-", "-">>}

NextOrgs ==
    \/ \E email \in {"u1", "u5"}, organizationSlug \in {<<>>} \cup NewSlugs :
           Signup(email, organizationSlug)
    \/ \E p \in Connections, req \in CreateOrgRequests, slug \in NewSlugs :
           CheckOrganization(p, req, slug)
    \/ \E p \in Connections : InsertOrganization(p)
    \/ \E req \in MemberRequests, email \in {"u1", "u3", "u9"}, role \in {"MEMBER", "ADMIN"} :
           AddMember(req, email, role)
    \/ \E req \in MemberRequests, targetUserId \in {"u1", "u2", "u3"},
          role \in {"MEMBER", "ADMIN"} :
           UpdateMemberRole(req, targetUserId, role)
    \/ SendResponse

SpecOrgs == Init /\ [][NextOrgs]_vars

(***************************************************************************)
(* DELETE /ticket-statuses/:id, suspended between its two store calls: the *)
(* findFirst that counts the tickets of the status, and the delete.        *)
(* Specification SpecStatus runs it on two connections by u4, org admin of *)
(* o1, and u1, a member, beside bulk updates by u4 that write statusId.    *)
(* The store starts as the status migration leaves it: two tickets of o1,  *)
(* each with a status of o1.                                               *)
(***************************************************************************)
\* prisma.ticketStatus.findFirst({ where: { id, organizationId } })
FindStatus(id, organizationId) ==
    OneRow({st \in statuses : st.id = id /\ st.organizationId = organizationId})

\* the handler up to its await of prisma.ticketStatus.delete
CheckStatus(p, req, id) ==
    /\ resp = NoResp
    /\ inflight[p] = Idle
    /\ \E chain \in {OrgAdminChain(req)} :
           LET ctx == chain.ctx
               r == [Response("DeleteStatus", chain) EXCEPT !.statusId = id]
               status == FindStatus(id, ctx.organizationId)
               count == Cardinality({t \in tickets : t.statusId = id})
           IN  /\ UNCHANGED <<restVars, storeVars>>
               /\ IF chain.sentBy # None
                  THEN Send(r) /\ UNCHANGED inflight
                  ELSE IF status = NoRow
                  THEN Send(Status(r, 404)) /\ UNCHANGED inflight
                  ELSE IF count > 0
                  THEN Send(Status(r, 400)) /\ UNCHANGED inflight
                  ELSE /\ inflight' = [inflight EXCEPT ![p] =
                                          [pc |-> "delete", id |-> id, r |-> r]]
                       /\ UNCHANGED <<resp, mail>>

\* prisma.ticketStatus.delete({ where: { id } }) and the response; the
\* store throws when the row is gone or a ticket references it
DeleteChecked(p) ==
    /\ resp = NoResp
    /\ inflight[p].pc = "delete"
    /\ LET id == inflight[p].id
           r == inflight[p].r
       IN  /\ UNCHANGED <<normVars, configVars, resolveVars, notifications, users, passwordResets,
                          loginOTPs, waiting, storeVars>>
           /\ inflight' = [inflight EXCEPT ![p] = Idle]
           /\ IF (\A st \in statuses : st.id # id) \/ tickets_statusId_fkey(id)
              THEN UNCHANGED statuses /\ Send(Status(r, 500))
              ELSE /\ statuses' = {st \in statuses : st.id # id}
                   /\ Send(r)

MigratedTicket(id, statusId) ==
    [id |-> id, organizationId |-> "o1", userId |-> "u1", assignedTo |-> None,
     categoryId |-> None, publicToken |-> None, submitterName |-> None,
     submitterEmail |-> None, via |-> "authenticated", statusId |-> statusId,
     status |-> "OPEN", priority |-> "MEDIUM", title |-> "t1", description |-> "d1"]

InitStatus ==
    /\ NormIdle
    /\ ResolveIdle
    /\ mainAppHost = SeedMainAppHost
    /\ organizations = SeedOrganizations
    /\ memberships = SeedMemberships
    /\ categories = SeedCategories
    /\ assignments = SeedAssignments
    /\ tickets = {MigratedTicket(101, "s1"), MigratedTicket(102, "s2")}
    /\ comments = {}
    /\ attachments = {}
    /\ timeEntries = {}
    /\ activityLogs = {}
    /\ nextId = SeedNextId
    /\ resp = NoResp
    /\ users = SeedUsers
    /\ statuses = SeedStatuses
    /\ passwordResets = {}
    /\ loginOTPs = <<>>
    /\ notifications = {}
    /\ inflight = NoInflight
    /\ mail = <<>>
    /\ waiting = NoResp

StatusRequests ==
    {Request(<<>>, <<>>, <<>>, HeaderAc, Token(a, None)) :
        a \in {[userId |-> "u4", role |-> "USER"], [userId |-> "u1", role |-> "USER"]}}

\* s9 names no row
StatusIds == {"s1", "s2", "s3", "s9"}

StatusData ==
    {[assignedTo |-> Absent, organizationId |-> Absent, userId |-> Absent,
      statusId |-> id] : id \in StatusIds}

NextStatus ==
    \/ \E p \in Connections, req \in StatusRequests, id \in StatusIds :
           CheckStatus(p, req, id)
    \/ \E p \in Connections : DeleteChecked(p)
    \/ \E req \in StatusRequests, ticketIds \in {<<101>>, <<102>>, <<101, 102>>},
          data \in StatusData :
           BulkTickets(req, ticketIds, "update", data)
    \/ SendResponse

SpecStatus == InitStatus /\ [][NextStatus]_vars

(***************************************************************************)
(* Specification SpecToken: two ticket creations on two connections, each  *)
(* suspended at the awaits of its token loop.  A creation draws a          *)
(* candidate, awaits findUnique, draws again while the candidate exists    *)
(* and attempts < 10, and then runs the rest of the handler, which inserts *)
(* the row with the last candidate.  The requests are ones the chain and   *)
(* the schema accept: u1, a member of o1, and an anonymous submitter,      *)
(* both naming o1.  The store starts with none, one or both of the tokens  *)
(* on earlier public tickets, so that a creation can find every candidate  *)
(* taken.                                                                  *)
(***************************************************************************)
EarlierTicket(id, publicToken) ==
    [id |-> id, organizationId |-> "o1", userId |-> None, assignedTo |-> None,
     categoryId |-> None, publicToken |-> publicToken, submitterName |-> "s1",
     submitterEmail |-> "s1", via |-> "public", statusId |-> None,
     status |-> "OPEN", priority |-> "MEDIUM", title |-> "t1", description |-> "d1"]

EarlierTickets == {{}, {EarlierTicket(101, "T1")},
                   {EarlierTicket(101, "T1"), EarlierTicket(102, "T2")}}

TokenRoutes == {"CreateTicket", "CreatePublicTicket"}

TokenRequest(route) ==
    IF route = "CreateTicket"
    THEN Request(<<>>, <<>>, <<>>, HeaderAc, Token([userId |-> "u1", role |-> "USER"], None))
    ELSE Request(<<>>, <<>>, <<>>, HeaderAc, NoToken)

InitToken ==
    /\ NormIdle
    /\ ResolveIdle
    /\ mainAppHost = SeedMainAppHost
    /\ organizations = SeedOrganizations
    /\ memberships = SeedMemberships
    /\ categories = SeedCategories
    /\ assignments = SeedAssignments
    /\ tickets \in EarlierTickets
    /\ comments = {}
    /\ attachments = {}
    /\ timeEntries = {}
    /\ activityLogs = {}
    /\ nextId = [SeedNextId EXCEPT !.ticket = MaxTickets - 1]
    /\ resp = NoResp
    /\ users = SeedUsers
    /\ statuses = SeedStatuses
    /\ passwordResets = {}
    /\ loginOTPs = <<>>
    /\ notifications = {}
    /\ inflight = NoInflight
    /\ mail = <<>>
    /\ waiting = NoResp

\* let publicToken = generateSimpleToken(); let tokenExists = await findUnique; let attempts = 0
BeginToken(p, route, publicToken) ==
    /\ inflight[p] = Idle
    /\ inflight' = [inflight EXCEPT ![p] =
                       [pc |-> "loop", route |-> route, publicToken |-> publicToken,
                        tokenExists |-> TokenExists(publicToken), attempts |-> 0]]
    /\ UNCHANGED <<restVars, storeVars, resp, mail>>

\* one turn of while (tokenExists && attempts < 10)
RetryToken(p, publicToken) ==
    /\ inflight[p].pc = "loop"
    /\ inflight[p].tokenExists
    /\ inflight[p].attempts < MaxAttempts
    /\ inflight' = [inflight EXCEPT ![p].publicToken = publicToken,
                                    ![p].tokenExists = TokenExists(publicToken),
                                    ![p].attempts = @ + 1]
    /\ UNCHANGED <<restVars, storeVars, resp, mail>>

\* the loop is left and the handler runs to its response
InsertCreated(p) ==
    /\ inflight[p].pc = "loop"
    /\ ~(inflight[p].tokenExists /\ inflight[p].attempts < MaxAttempts)
    /\ IF inflight[p].route = "CreateTicket"
       THEN CreateTicket(TokenRequest("CreateTicket"), None,
                         inflight[p].publicToken, NoSubmitter)
       ELSE CreatePublicTicket(TokenRequest("CreatePublicTicket"), None,
                               inflight[p].publicToken, [name |-> "s1", email |-> "s1"])
    /\ inflight' = [inflight EXCEPT ![p].pc = "answered"]

\* the response of connection p has gone out
CloseConnection(p) ==
    /\ inflight[p].pc = "answered"
    /\ resp # NoResp
    /\ resp' = NoResp
    /\ mail' = <<>>
    /\ inflight' = [inflight EXCEPT ![p] = Idle]
    /\ UNCHANGED <<restVars, storeVars>>

NextToken ==
    \/ \E p \in Connections, route \in TokenRoutes, publicToken \in Tokens :
           BeginToken(p, route, publicToken)
    \/ \E p \in Connections, publicToken \in Tokens : RetryToken(p, publicToken)
    \/ \E p \in Connections : InsertCreated(p)
    \/ \E p \in Connections : CloseConnection(p)

SpecToken == InitToken /\ [][NextToken]_vars

(***************************************************************************)
(* Specification SpecTenant: one request through authenticate or           *)
(* optionalAuthenticate, identifyOrganization, and getOrganizationFromUser *)
(* or its optional variant, in the order the ticket routes chain them.     *)
(* rs and rs2 hold the context before and after the last middleware that   *)
(* ran; rPhase tells which ran: 1 authenticate, 2 optionalAuthenticate, 3  *)
(* and 4 identifyOrganization after them, 5 getOrganizationFromUser, 6 its *)
(* optional variant; 7 identifyOrganization first and 8 authenticate after *)
(* it, the order of the /organizations/:orgSlug routes.  u1 is a member of *)
(* o1 and o2, in either order of creation; u9 is a member of nothing.      *)
(***************************************************************************)
MembershipTables ==
    {SeedMemberships,
     <<SeedMemberships[3], SeedMemberships[1], SeedMemberships[2],
       SeedMemberships[4], SeedMemberships[5]>>}

TenantTokens ==
    {NoToken,
     Token([userId |-> "u1", role |-> "USER"], None),
     Token([userId |-> "u1", role |-> "USER"], "o2"),
     Token([userId |-> "u3", role |-> "SUPERADMIN"], None),
     Token([userId |-> "u9", role |-> "USER"], None)}

\* no header, o1, a header that normalizes to the empty string, no such tenant
TenantHeaders == {<<>>, HeaderAc, <<"-", " ">>, <<"z", "z">>}

InitTenant ==
    /\ NormIdle
    /\ mainAppHost = SeedMainAppHost
    /\ organizations = SeedOrganizations
    /\ rq \in {Request(<<>>, <<>>, <<>>, x, token) :
                  x \in TenantHeaders, token \in TenantTokens}
              \cup {Request(<<>>, HeaderAc, <<>>, <<>>, token) : token \in TenantTokens}
    /\ rs = NoCtx
    /\ rs2 = NoCtx
    /\ rPhase = 0
    /\ memberships \in MembershipTables
    /\ categories = SeedCategories
    /\ assignments = SeedAssignments
    /\ tickets = {}
    /\ comments = {}
    /\ attachments = {}
    /\ timeEntries = {}
    /\ activityLogs = {}
    /\ nextId = SeedNextId
    /\ resp = NoResp
    /\ users = SeedUsers
    /\ statuses = SeedStatuses
    /\ passwordResets = {}
    /\ loginOTPs = <<>>
    /\ notifications = {}
    /\ inflight = NoInflight
    /\ mail = <<>>
    /\ waiting = NoResp

TenantFrame == <<normVars, configVars, rq, storeVars, resp, sideVars>>

Authenticate ==
    /\ rPhase = 0
    /\ rs2' = authenticate(rq, rs)
    /\ rPhase' = 1
    /\ UNCHANGED <<rs, TenantFrame>>

OptionalAuthenticate ==
    /\ rPhase = 0
    /\ rs2' = optionalAuthenticate(rq, rs)
    /\ rPhase' = 2
    /\ UNCHANGED <<rs, TenantFrame>>

\* next() was called: the following middleware runs
IdentifyTenant ==
    /\ rPhase \in {1, 2}
    /\ rs2.status = 0
    /\ rs' = rs2
    /\ rs2' = identifyOrganization(rq, rs2)
    /\ rPhase' = rPhase + 2
    /\ UNCHANGED TenantFrame

FallBackToUser ==
    /\ rPhase = 3
    /\ rs2.status = 0
    /\ rs' = rs2
    /\ rs2' = getOrganizationFromUser(rs2)
    /\ rPhase' = 5
    /\ UNCHANGED TenantFrame

FallBackToUserOptionalAuth ==
    /\ rPhase = 4
    /\ rs2.status = 0
    /\ rs' = rs2
    /\ rs2' = getOrganizationFromUserOptionalAuth(rs2)
    /\ rPhase' = 6
    /\ UNCHANGED TenantFrame

\* router.get('/:orgSlug', identifyOrganization, authenticate, ...)
IdentifyFirst ==
    /\ rPhase = 0
    /\ rs2' = identifyOrganization(rq, rs)
    /\ rPhase' = 7
    /\ UNCHANGED <<rs, TenantFrame>>

AuthenticateAfter ==
    /\ rPhase = 7
    /\ rs2.status = 0
    /\ rs' = rs2
    /\ rs2' = authenticate(rq, rs2)
    /\ rPhase' = 8
    /\ UNCHANGED TenantFrame

NextTenant ==
    \/ IdentifyFirst
    \/ AuthenticateAfter
    \/ Authenticate
    \/ OptionalAuthenticate
    \/ IdentifyTenant
    \/ FallBackToUser
    \/ FallBackToUserOptionalAuth

SpecTenant == InitTenant /\ [][NextTenant]_vars

(***************************************************************************)
(* Specification SpecUpdate: tickets of o1 are created, updated with       *)
(* bodies that carry any of the six fields, and assigned in bulk, while    *)
(* the admins of o1 assign users to categories and remove members.         *)
(***************************************************************************)
\* u4 is an admin of o1, u1 a member
UpdateRequests ==
    {Request(<<>>, <<>>, <<>>, HeaderAc, Token([userId |-> u, role |-> "USER"], None)) :
        u \in {"u4", "u1"}}

\* the same callers on /organizations/:orgSlug
RemoveRequests ==
    {Request(<<>>, HeaderAc, <<>>, <<>>, Token([userId |-> u, role |-> "USER"], None)) :
        u \in {"u4", "u1"}}

\* c1 has assignments, c2 has none until a user is assigned to it
UpdateBodies ==
    {[NoData EXCEPT !.status = "CLOSED"],
     [NoData EXCEPT !.status = "CLOSED", !.description = "d1"],
     [NoData EXCEPT !.title = "t2", !.priority = "HIGH"],
     [NoData EXCEPT !.categoryId = ""],
     [NoData EXCEPT !.categoryId = "c1"],
     [NoData EXCEPT !.categoryId = "c2"],
     [NoData EXCEPT !.categoryId = "c1", !.assignedTo = "u2"],
     [NoData EXCEPT !.assignedTo = "u3"],
     [NoData EXCEPT !.assignedTo = "u8"]}

NextUpdate ==
    \/ \E req \in UpdateRequests, categoryId \in {None, "c1", "c2"} :
           CreateTicket(req, categoryId, "T1", NoSubmitter) /\ UNCHANGED inflight
    \/ \E req \in UpdateRequests, id \in TicketIds, body \in UpdateBodies :
           UpdateTicketWith(req, id, body)
    \/ \E req \in UpdateRequests, id \in TicketIds, userId \in {"u2", "u3"} :
           BulkTickets(req, <<id>>, "assign",
                       [assignedTo |-> userId, organizationId |-> Absent,
                        userId |-> Absent, statusId |-> Absent])
    \/ \E req \in UpdateRequests : AssignUser(req, "c2", "u2")
    \/ \E req \in RemoveRequests, targetUserId \in {"u1", "u2"} :
           RemoveMember(req, targetUserId)
    \/ SendResponse

SpecUpdate == Init /\ [][NextUpdate]_vars

(***************************************************************************)
(* Specification SpecLog: POST /tickets and DELETE /tickets/:id of an      *)
(* admin of o1, each await a step of its own, on two connections.  A       *)
(* connection may fail between two steps.  The schema is not part of the   *)
(* sources: activity_logs.ticketId and notifications.ticketId reference    *)
(* tickets.id, and the rows leave with their ticket.                       *)
(***************************************************************************)
LogRequest ==
    Request(<<>>, <<>>, <<>>, HeaderAc, Token([userId |-> "u4", role |-> "USER"], None))

activity_logs_ticketId_fkey(ticketId) == \E t \in tickets : t.id = ticketId

notifications_ticketId_fkey(ticketId) == \E t \in tickets : t.id = ticketId

\* createActivityLog whose insert is accepted whatever ticketId it carries
createActivityLogUnchecked(ticketId) == activityLogs' = activityLogs \cup {ticketId}

\* try { prisma.activityLog.create } catch { console.error }: a rejected
\* insert leaves no row and does not throw
createActivityLog(ticketId) ==
    activityLogs' = IF activity_logs_ticketId_fkey(ticketId)
                    THEN activityLogs \cup {ticketId}
                    ELSE activityLogs

\* try { prisma.notification.create } catch { console.error }
createNotification(row) ==
    notifications' = IF notifications_ticketId_fkey(row.ticketId)
                     THEN notifications \cup {row}
                     ELSE notifications

LogFrame == <<normVars, configVars, resolveVars, users, statuses, passwordResets,
              loginOTPs, waiting, resp, mail, memberships, categories, assignments>>

\* POST /tickets up to the end of prisma.ticket.create
InsertTicket(p) ==
    /\ inflight[p] = Idle
    /\ nextId.ticket <= MaxTickets
    /\ \E chain \in {MemberChain(LogRequest)} :
           /\ chain.sentBy = None
           /\ tickets' = tickets \cup
                  {[id |-> nextId.ticket, organizationId |-> chain.ctx.organizationId,
                    userId |-> chain.ctx.userId, assignedTo |-> None,
                    categoryId |-> None, publicToken |-> "T1",
                    submitterName |-> None, submitterEmail |-> None,
                    via |-> "authenticated", statusId |-> None,
                    status |-> "OPEN", priority |-> "MEDIUM", title |-> "t1",
                    description |-> "d1"]}
           /\ inflight' = [inflight EXCEPT ![p] =
                              [pc |-> "log", ticketId |-> nextId.ticket,
                               userId |-> chain.ctx.userId]]
    /\ nextId' = [nextId EXCEPT !.ticket = @ + 1]
    /\ UNCHANGED <<LogFrame, comments, attachments, timeEntries, activityLogs,
                   notifications>>

\* await logTicketAction(ticket.id, userId, 'TICKET_CREATED', ...)
LogCreated(p) ==
    /\ inflight[p].pc = "log"
    /\ createActivityLog(inflight[p].ticketId)
    /\ inflight' = [inflight EXCEPT ![p].pc = "notify"]
    /\ UNCHANGED <<LogFrame, tickets, comments, attachments, timeEntries, nextId,
                   notifications>>

\* await createNotification({ userId, type: 'TICKET_CREATED', ticketId }),
\* then the response
NotifyCreated(p) ==
    /\ inflight[p].pc = "notify"
    /\ createNotification([userId |-> inflight[p].userId, type |-> "TICKET_CREATED",
                           ticketId |-> inflight[p].ticketId])
    /\ inflight' = [inflight EXCEPT ![p] = [pc |-> "answered", status |-> 201]]
    /\ UNCHANGED <<LogFrame, storeVars>>

\* DELETE /tickets/:id up to the end of prisma.ticket.findFirst
FindDeleted(p, id) ==
    /\ inflight[p] = Idle
    /\ \E chain \in {OrgAdminChain(LogRequest)} :
           /\ chain.sentBy = None
           /\ inflight' = [inflight EXCEPT ![p] =
                  IF FindTicket(id, chain.ctx.organizationId) = NoRow
                  THEN [pc |-> "answered", status |-> 404]
                  ELSE [pc |-> "logDeleted", ticketId |-> id, userId |-> chain.ctx.userId]]
    /\ UNCHANGED <<LogFrame, storeVars, notifications>>

\* await logTicketAction(id, userId, 'TICKET_DELETED', ...)
LogDeleted(p) ==
    /\ inflight[p].pc = "logDeleted"
    /\ createActivityLog(inflight[p].ticketId)
    /\ inflight' = [inflight EXCEPT ![p].pc = "delete"]
    /\ UNCHANGED <<LogFrame, tickets, comments, attachments, timeEntries, nextId,
                   notifications>>

\* await prisma.ticket.delete({ where: { id } }), which throws when the row
\* is gone, then the response
DeleteFound(p) ==
    /\ inflight[p].pc = "delete"
    /\ IF \E t \in tickets : t.id = inflight[p].ticketId
       THEN /\ RemoveTickets({inflight[p].ticketId})
            /\ notifications' = {n \in notifications : n.ticketId # inflight[p].ticketId}
            /\ inflight' = [inflight EXCEPT ![p] = [pc |-> "answered", status |-> 200]]
       ELSE /\ UNCHANGED <<tickets, comments, attachments, timeEntries, activityLogs,
                           notifications>>
            /\ inflight' = [inflight EXCEPT ![p] = [pc |-> "answered", status |-> 500]]
    /\ UNCHANGED <<LogFrame, nextId>>

\* the process or the connection fails between two steps of a handler
FailBetweenSteps(p) ==
    /\ inflight[p].pc \in {"log", "notify", "logDeleted", "delete"}
    /\ inflight' = [inflight EXCEPT ![p] = [pc |-> "answered", status |-> 0]]
    /\ UNCHANGED <<LogFrame, storeVars, notifications>>

\* the connection is free for the next request
NextRequest(p) ==
    /\ inflight[p].pc = "answered"
    /\ inflight' = [inflight EXCEPT ![p] = Idle]
    /\ UNCHANGED <<LogFrame, storeVars, notifications>>

NextLog ==
    \/ \E p \in Connections : InsertTicket(p)
    \/ \E p \in Connections : LogCreated(p)
    \/ \E p \in Connections : NotifyCreated(p)
    \/ \E p \in Connections, id \in TicketIds : FindDeleted(p, id)
    \/ \E p \in Connections : LogDeleted(p)
    \/ \E p \in Connections : DeleteFound(p)
    \/ \E p \in Connections : FailBetweenSteps(p)
    \/ \E p \in Connections : NextRequest(p)

InitLog ==
    /\ Init
    /\ nextId.ticket = 1

SpecLog == InitLog /\ [][NextLog]_vars

(***************************************************************************)
(* Specification SpecPublic: the routes whose only guard is                *)
(* identifyOrganization, called with a header that names o1, with one that *)
(* normalizes to the empty string, and with no tenant signal at all.       *)
(* Prisma drops a where-field whose value is undefined.                    *)
(***************************************************************************)
\* GET /categories
ListCategories(req) ==
    /\ resp = NoResp
    /\ \E chain \in {PublicChain(req)} :
           LET r == Response("ListCategories", chain)
               found == SelectSeq(categories,
                                  LAMBDA c : chain.ctx.organizationId # None
                                                 => c.organizationId = chain.ctx.organizationId)
           IN  /\ UNCHANGED <<frameVars, storeVars>>
               /\ Send(IF chain.sentBy # None THEN r
                       ELSE Touching(r, {found[i].organizationId : i \in 1..Len(found)}))

\* GET /ticket-statuses
ListStatuses(req) ==
    /\ resp = NoResp
    /\ \E chain \in {PublicChain(req)} :
           LET r == Response("ListStatuses", chain)
               found == {st \in statuses : chain.ctx.organizationId # None
                                               => st.organizationId = chain.ctx.organizationId}
           IN  /\ UNCHANGED <<frameVars, storeVars>>
               /\ Send(IF chain.sentBy # None THEN r
                       ELSE Touching(r, {st.organizationId : st \in found}))

\* no x-organization-slug, the slugs of o1 and o2, a slug that normalizes to
\* nothing
AnonymousRequests ==
    {Request(<<>>, <<>>, <<>>, x, NoToken) : x \in {<<>>, HeaderAc, HeaderB, <<"-", " ">>}}

NextPublic ==
    \/ \E req \in AnonymousRequests, categoryId \in {None, "c1"}, publicToken \in Tokens,
          submitter \in Submitters :
           CreatePublicTicket(req, categoryId, publicToken, submitter) /\ UNCHANGED inflight
    \/ \E req \in AnonymousRequests, token \in TrackTokens : TrackTicket(req, token)
    \/ \E req \in AnonymousRequests, id \in TicketIds : UploadPublicAttachment(req, id)
    \/ \E req \in AnonymousRequests : ListCategories(req)
    \/ \E req \in AnonymousRequests : ListStatuses(req)
    \/ SendResponse

SpecPublic == Init /\ [][NextPublic]_vars

(***************************************************************************)
(* Specification SpecOtp: POST /auth/request-otp and POST /auth/verify-otp *)
(* for the account u1 on two connections, each await of the store a step   *)
(* of its own.  An OTP expires when its ten minutes have passed.           *)
(***************************************************************************)
OtpFrame == <<normVars, configVars, resolveVars, users, statuses, passwordResets,
              notifications, waiting, resp, mail, storeVars>>

\* POST /auth/request-otp up to the end of prisma.loginOTP.deleteMany
BeginRequestOtp(p, email, isValidPassword) ==
    /\ inflight[p] = Idle
    /\ IF FindUserByEmail(email) = NoRow \/ ~isValidPassword
       THEN /\ inflight' = [inflight EXCEPT ![p] =
                               [pc |-> "answered", route |-> "RequestOtp", status |-> 401]]
            /\ UNCHANGED loginOTPs
       ELSE /\ loginOTPs' = DeleteOtps(email)
            /\ inflight' = [inflight EXCEPT ![p] = [pc |-> "createOtp", email |-> email]]
    /\ UNCHANGED OtpFrame

\* prisma.loginOTP.create, the awaited sendLoginOTPEmail and the response
CreateOtp(p, otp, sent) ==
    /\ inflight[p].pc = "createOtp"
    /\ loginOTPs' = Append(loginOTPs, NewOtp(inflight[p].email, otp))
    /\ inflight' = [inflight EXCEPT ![p] =
                       [pc |-> "answered", route |-> "RequestOtp",
                        status |-> IF sent THEN 200 ELSE 500]]
    /\ UNCHANGED OtpFrame

\* findFirst({ where: { email, otp, used: false, expiresAt: { gt: now } },
\*             orderBy: { createdAt: 'desc' } })
FindOtp(email, otp) ==
    LET hits == {i \in 1..Len(loginOTPs) :
                    /\ loginOTPs[i].email = email
                    /\ loginOTPs[i].otp = otp
                    /\ ~loginOTPs[i].used
                    /\ ~loginOTPs[i].expired}
    IN  IF hits = {} THEN NoRow
        ELSE loginOTPs[CHOOSE i \in hits : \A j \in hits : j <= i]

\* POST /auth/verify-otp up to the end of prisma.loginOTP.findFirst
BeginVerifyOtp(p, email, otp) ==
    /\ inflight[p] = Idle
    /\ inflight' = [inflight EXCEPT ![p] =
           IF FindOtp(email, otp) = NoRow
           THEN [pc |-> "answered", route |-> "VerifyOtp", status |-> 401]
           ELSE [pc |-> "markUsed", email |-> email, otpId |-> FindOtp(email, otp).id]]
    /\ UNCHANGED <<OtpFrame, loginOTPs>>

\* prisma.loginOTP.update({ where: { id }, data: { used: true } }), which
\* throws when the row is gone, then the token and the response
MarkUsed(p) ==
    /\ inflight[p].pc = "markUsed"
    /\ IF \E i \in 1..Len(loginOTPs) : loginOTPs[i].id = inflight[p].otpId
       THEN /\ loginOTPs' = [i \in 1..Len(loginOTPs) |->
                                IF loginOTPs[i].id = inflight[p].otpId
                                THEN [loginOTPs[i] EXCEPT !.used = TRUE]
                                ELSE loginOTPs[i]]
            /\ inflight' = [inflight EXCEPT ![p] =
                   [pc |-> "answered", route |-> "VerifyOtp", otpId |-> inflight[p].otpId,
                    status |-> IF FindUserByEmail(inflight[p].email) = NoRow
                               THEN 401 ELSE 200]]
       ELSE /\ UNCHANGED loginOTPs
            /\ inflight' = [inflight EXCEPT ![p] =
                   [pc |-> "answered", route |-> "VerifyOtp", status |-> 500]]
    /\ UNCHANGED OtpFrame

\* expiresAt of a row is reached
OtpExpires(i) ==
    /\ i \in 1..Len(loginOTPs)
    /\ ~loginOTPs[i].expired
    /\ loginOTPs' = [loginOTPs EXCEPT ![i].expired = TRUE]
    /\ UNCHANGED <<OtpFrame, inflight>>

NextOtp ==
    \/ \E p \in Connections, isValidPassword \in BOOLEAN :
           BeginRequestOtp(p, "u1", isValidPassword)
    \/ \E p \in Connections, otp \in Otps, sent \in BOOLEAN : CreateOtp(p, otp, sent)
    \/ \E p \in Connections, otp \in Otps : BeginVerifyOtp(p, "u1", otp)
    \/ \E p \in Connections : MarkUsed(p)
    \/ \E i \in OtpIds : OtpExpires(i)
    \/ \E p \in Connections : NextRequest(p)

SpecOtp == Init /\ [][NextOtp]_vars

(***************************************************************************)
(* Properties of the guards and of the ticket routes.                      *)
(***************************************************************************)
\* the authenticated ticket-scoped routes
TicketScopedRoutes ==
    {"ListTickets", "GetTicket", "UpdateTicket", "DeleteTicket", "AddComment",
     "EditComment", "DeleteComment", "UploadAttachment", "UploadCommentAttachment",
     "DeleteAttachment", "GetAttachmentFile", "BulkTickets", "GetActivity",
     "AddTimeEntry", "GetTimeEntries", "DeleteTimeEntry"}

\* the routes whose chain ends with verifyOrganizationAccess
MemberGuardedRoutes ==
    (TicketScopedRoutes \ {"DeleteTicket"}) \cup {"CreateTicket", "GetOrganization"}

\* the routes that compute isOrgAdmin
RoleRoutes ==
    {"ListTickets", "GetTicket", "UpdateTicket", "DeleteComment", "DeleteAttachment",
     "DeleteTimeEntry", "BulkTickets"}

\* C1: on every authenticated ticket-scoped route, when the handler runs for
\* resolved tenant A, every row it returns, updates, creates or deletes
\* belongs to a ticket of A; and when the request names a ticket, attachment
\* or time entry of another tenant the answer is 404, 403 or 400 and the
\* store is unchanged.
C1_TenantIsolation ==
    (resp.route \in TicketScopedRoutes /\ resp.sentBy = "handler") =>
        /\ resp.organizationId # None
        /\ resp.touched \subseteq {resp.organizationId}
        /\ resp.foreign => (resp.status \in {404, 403, 400} /\ ~resp.wrote)

\* the org admin of o2 names, in a bulk request resolved to o2, a ticket of
\* o1, and is answered 400
C1_Witness ==
    /\ resp.route = "BulkTickets"
    /\ resp.organizationId = "o2"
    /\ resp.isOrgAdmin = "true"
    /\ resp.foreign
    /\ resp.status = 400
    /\ \E t \in tickets : t.organizationId = "o1"

\* C2: verifyOrganizationAccess answers 401 when no tenant or no actor is
\* attached, 403 when the actor has no membership row in the tenant, whatever
\* the actor's global role, and otherwise calls the handler, whatever the
\* membership role; when it answers, the store is unchanged.
C2_VerifyOrganizationAccess ==
    (/\ resp.route \in MemberGuardedRoutes
     /\ resp.sentBy \in {"verifyOrganizationAccess", "handler"}) =>
        IF resp.organizationId = None \/ resp.userId = None
        THEN resp.sentBy = "verifyOrganizationAccess" /\ resp.status = 401 /\ ~resp.wrote
        ELSE IF FindMembership(resp.userId, resp.organizationId) = NoRow
        THEN resp.sentBy = "verifyOrganizationAccess" /\ resp.status = 403 /\ ~resp.wrote
        ELSE resp.sentBy = "handler"

\* a platform ADMIN without a membership row in o2 is answered 403
C2_Witness ==
    /\ resp.route \in MemberGuardedRoutes
    /\ resp.sentBy = "verifyOrganizationAccess"
    /\ resp.status = 403
    /\ resp.userRole = "ADMIN"
    /\ resp.organizationId = "o2"
    /\ FindMembership(resp.userId, "o2") = NoRow

\* C3, as the specification states it: an actor whose global role is ADMIN
\* passes requireOrgAdmin on every tenant, with or without a membership row.
C3_GlobalAdminPassesRequireOrgAdmin ==
    (/\ resp.route \in {"DeleteTicket", "AssignUser", "RemoveAssignment"}
     /\ resp.sentBy \in {"requireOrgAdmin", "handler"}
     /\ resp.organizationId # None
     /\ resp.userRole = "ADMIN") =>
        resp.sentBy = "handler"

\* C4: requireOrgAdmin calls the handler only if the actor's membership role
\* in the tenant is ADMIN or the actor's global role is ADMIN; a MEMBER whose
\* global role is USER or SUPERADMIN is answered 403 and the store is
\* unchanged.
C4_RequireOrgAdmin ==
    (/\ resp.route = "DeleteTicket"
     /\ resp.sentBy \in {"requireOrgAdmin", "handler"}) =>
        /\ resp.sentBy = "handler" =>
              \/ MembershipRole(resp.userId, resp.organizationId) = "ADMIN"
              \/ resp.userRole = "ADMIN"
        /\ (/\ MembershipRole(resp.userId, resp.organizationId) = "MEMBER"
            /\ resp.userRole \in {"USER", "SUPERADMIN"}) =>
              /\ resp.sentBy = "requireOrgAdmin"
              /\ resp.status = 403
              /\ ~resp.wrote
        /\ resp.sentBy = "requireOrgAdmin" => ~resp.wrote

\* a MEMBER of o2 whose global role is SUPERADMIN asks to delete a ticket of
\* o2 and is answered 403
C4_Witness ==
    /\ resp.route = "DeleteTicket"
    /\ resp.sentBy = "requireOrgAdmin"
    /\ resp.status = 403
    /\ resp.userRole = "SUPERADMIN"
    /\ MembershipRole(resp.userId, resp.organizationId) = "MEMBER"
    /\ \E t \in tickets : t.organizationId = resp.organizationId

\* C5, as the specification states it: every handler that tells org admins
\* from members treats the actor as org admin exactly when the membership
\* role is ADMIN or the global role is ADMIN.
C5_SameEffectiveRoleEverywhere ==
    (resp.route \in RoleRoutes /\ resp.isOrgAdmin # None) =>
        (resp.isOrgAdmin = "true") <=>
            (\/ MembershipRole(resp.userId, resp.organizationId) = "ADMIN"
             \/ resp.userRole = "ADMIN")

\* C10, as the specification states it: a ticket created, by a member or by
\* an anonymous submitter, in a category with N >= 1 assignment rows in the
\* tenant is assigned to the user of the first row and one TICKET_ASSIGNED
\* notification row is created for each of the N users; with no rows or no
\* category the ticket has no assignee and no such notification is created.
C10_AutoAssignmentOnCreate ==
    (resp.route \in {"CreateTicket", "CreatePublicTicket"} /\ resp.status = 201) =>
        LET ticket == OneRow({t \in tickets : t.id = resp.ticketId})
            found == IF ticket.categoryId = None THEN <<>>
                     ELSE FindAssignments(ticket.categoryId, ticket.organizationId)
            assigned == SelectSeq(resp.notifications,
                                  LAMBDA n : n.type = "TICKET_ASSIGNED")
        IN  /\ ticket.assignedTo = resp.assignedTo
            /\ ticket.assignedTo = IF Len(found) > 0 THEN found[1].userId ELSE None
            /\ Len(assigned) = Len(found)
            /\ \A i \in 1..Len(found) : assigned[i].userId = found[i].userId

\* C11, as the specification states it: a ticket has no userId exactly when
\* public submission created it, and then it has a submitterName and a
\* submitterEmail; a ticket of authenticated creation has a userId and
\* neither submitter field; no later request changes this.
C11_SubmitterFieldsFollowCreation ==
    \A t \in tickets :
        /\ (t.userId = None) <=> (t.via = "public")
        /\ t.via = "public" => (t.submitterName # None /\ t.submitterEmail # None)
        /\ t.via = "authenticated" => (t.submitterName = None /\ t.submitterEmail = None)

\* C12, as the specification states it: a ticket has a publicToken exactly
\* when public submission created it.
C12_TokenOnlyOnPublicTickets ==
    \A t \in tickets : (t.publicToken # None) <=> (t.via = "public")

\* C14, as the specification states it: an unauthenticated GET of
\* /tickets/public?token=T, resolved to a tenant that has a ticket with
\* publicToken T, is answered by the tracking handler with that ticket.
C14_TrackingReachesHandler ==
    (/\ resp.request.path = "GET /public"
     /\ resp.userId = None
     /\ FindTicketByToken(resp.request.token, "o1") # NoRow) =>
        /\ resp.route = "TrackTicket"
        /\ resp.sentBy = "handler"
        /\ resp.status = 200
        /\ resp.ticketId = FindTicketByToken(resp.request.token, "o1").id

\* C20, as the specification states it: no request changes the
\* organizationId of a ticket.
C20_OrganizationNeverChanges ==
    [][\A t \in tickets : \A u \in tickets' :
          u.id = t.id => u.organizationId = t.organizationId]_vars

\* C13: no two tickets hold the same publicToken, and a creation draws at
\* most 10 further candidates after its first, also when every candidate
\* is taken and when two creations check and insert concurrently
C13_PublicTokensDistinct ==
    /\ \A t \in tickets : \A u \in tickets :
           (t.id # u.id /\ t.publicToken # None) => t.publicToken # u.publicToken
    /\ \A p \in Connections : inflight[p].pc = "loop" => inflight[p].attempts <= MaxAttempts

\* a creation whose check found its candidate free was refused by the store,
\* the other connection having inserted the same token in between, and a
\* creation on the other connection gave up after 10 regenerated candidates
C13_Witness_RaceAndExhausted ==
    /\ resp.status = 500
    /\ resp.sentBy = "handler"
    /\ \E p \in Connections, q \in Connections :
           /\ inflight[p].pc = "answered"
           /\ ~inflight[p].tokenExists
           /\ inflight[q].pc = "loop"
           /\ inflight[q].tokenExists
           /\ inflight[q].attempts = MaxAttempts

\* C15: a DELETE /ticket-statuses/:id whose count finds a ticket of the
\* status is answered 400 and leaves the row, and in every state, also
\* when a ticket takes the status between the count and the delete, every
\* status a ticket references has its row
C15_ReferencedStatusStays ==
    /\ [](\A t \in tickets : t.statusId # None => \E st \in statuses : st.id = t.statusId)
    /\ [][(/\ resp = NoResp
           /\ resp'.route = "DeleteStatus"
           /\ resp'.sentBy = "handler"
           /\ inflight' = inflight
           /\ FindStatus(resp'.statusId, resp'.organizationId) # NoRow
           /\ \E t \in tickets : t.statusId = resp'.statusId)
          => (resp'.status = 400 /\ statuses' = statuses)]_vars

\* a delete whose count found no ticket was refused by the store, a bulk
\* update having given a ticket the status in between; the row is there
C15_Witness_DeleteRefusedAfterCount ==
    /\ resp.route = "DeleteStatus"
    /\ resp.status = 500
    /\ \E st \in statuses : st.id = resp.statusId
    /\ \E t \in tickets : t.statusId = resp.statusId

\* the ticket routes that send email
MailingRoutes == {"CreateTicket", "CreatePublicTicket", "UpdateTicket", "AddComment"}

\* C16: on ticket creation, public submission, ticket update and comment
\* creation the response goes out while every email send the handler
\* started is still pending, and no outcome of a send changes it: its
\* status is the handler's 200 or 201 with sends sent, failed or pending
C16_ResponseDoesNotWaitForMail ==
    /\ [][(resp = NoResp /\ resp'.route \in MailingRoutes)
          => /\ Len(mail') = Len(resp'.emails)
             /\ \A i \in DOMAIN mail' : mail'[i].state = "pending"]_vars
    /\ [][(resp.route \in MailingRoutes /\ mail' # mail /\ resp' # NoResp)
          => resp' = resp]_vars
    /\ [](resp.route \in MailingRoutes /\ resp.emails # <<>>
          => resp.status = IF resp.route = "UpdateTicket" THEN 200 ELSE 201)

\* a ticket creation answered 201 whose first send failed, whose second
\* was delivered and whose third is still pending
C16_Witness_CreatedWithMailFailedSentPending ==
    /\ resp.route = "CreateTicket"
    /\ resp.status = 201
    /\ Len(mail) = 3
    /\ mail[1].state = "failed"
    /\ mail[2].state = "sent"
    /\ mail[3].state = "pending"

\* C17: a failed email send changes the response on POST /auth/request-otp
\* only: every other response sent after a send of its request failed,
\* forgot-password and the ticket routes included, has the status of the
\* success case
C17_MailFailureSurfacesOnlyOnOtp ==
    (/\ resp # NoResp
     /\ resp.route # "RequestOtp"
     /\ \E i \in DOMAIN mail : mail[i].state = "failed")
    => resp.status \in {200, 201}

\* C18: a request that meets a unique constraint, in the handler's own
\* look-up or in the store's refusal of the insert, is answered 400 and
\* never 500; this includes the organization created during signup
C18_ConflictsAnswered400 == resp.conflict => resp.status = 400

\* C19: no user holds the ADMIN role in two organizations, after any
\* interleaving of signup, organization creation, add-member and
\* update-member-role
C19_OneAdminMembershipPerUser ==
    \A i \in 1..Len(memberships) : \A j \in 1..Len(memberships) :
        (/\ memberships[i].userId = memberships[j].userId
         /\ memberships[i].role = "ADMIN"
         /\ memberships[j].role = "ADMIN") => i = j

\* C21: the slug that organization creation and signup store for a raw
\* slug is the tenant-resolution normalization of that raw slug, and a
\* request naming the raw slug resolves to the organization created
C21_StoredSlugIsResolutionSlug ==
    (resp.status = 201 /\ resp.rawSlug # <<>>)
    => /\ \E i \in 1..Len(organizations) :
              /\ organizations[i].id = resp.organizationId
              /\ organizations[i].slug = NormalizeSlug(resp.rawSlug)
       /\ identifyOrganization(Request(<<>>, resp.rawSlug, <<>>, <<>>, NoToken),
                               NoCtx).organizationId = resp.organizationId

\* the organization of the oldest membership row of userId, None without one
EarliestOrganization(userId) ==
    IF \A i \in 1..Len(memberships) : memberships[i].userId # userId THEN None
    ELSE LET i == CHOOSE k \in 1..Len(memberships) :
                      /\ memberships[k].userId = userId
                      /\ \A j \in 1..(k - 1) : memberships[j].userId # userId
         IN  memberships[i].organizationId

\* C22: identifyOrganization with no candidate slug, or one that normalizes
\* to the empty string, calls next() and attaches nothing; with no tenant
\* set, getOrganizationFromUser adopts the organization of the actor's
\* earliest membership or answers 400 when there is none, and the optional
\* variant goes on with no tenant; a tenant already set is left as it is
C22_TenantFallback ==
    /\ (/\ rPhase \in {3, 4}
        /\ \/ OrganizationSlug(rq) = <<>>
           \/ NormalizeSlug(OrganizationSlug(rq)) = <<>>)
       => rs2 = rs
    /\ (rPhase \in {5, 6} /\ rs.organizationId # None) => rs2 = rs
    /\ (rPhase \in {5, 6} /\ rs.organizationId = None /\ rs.userId # None
           /\ EarliestOrganization(rs.userId) # None)
       => /\ rs2.status = 0
          /\ rs2.organizationId = EarliestOrganization(rs.userId)
          /\ rs2.organization = EarliestOrganization(rs.userId)
    /\ (rPhase = 5 /\ rs.organizationId = None /\ rs.userId # None
           /\ EarliestOrganization(rs.userId) = None)
       => (rs2.status = 400 /\ rs2.organizationId = None)
    /\ (rPhase = 6 /\ rs.organizationId = None
           /\ (rs.userId = None \/ EarliestOrganization(rs.userId) = None))
       => rs2 = rs

\* u1, whose token names no organization and whose request names no
\* tenant, is served in o2, the organization u1 joined first
C22_Witness_ServedInEarliestMembership ==
    /\ rPhase = 5
    /\ OrganizationSlug(rq) = <<>>
    /\ rs.userId = "u1"
    /\ rs.organizationId = None
    /\ memberships[1].organizationId = "o2"
    /\ rs2.organizationId = "o2"

\* the ticket of the response in flight, before and after the handler's step
TicketBefore == CHOOSE t \in tickets : t.id = resp'.ticketId
TicketAfter == CHOOSE t \in tickets' : t.id = resp'.ticketId

\* PUT /tickets/:id has written the ticket in this step
UpdateStep ==
    /\ resp = NoResp
    /\ resp'.route = "UpdateTicket"
    /\ resp'.status = 200
    /\ resp'.ticketId # 0

\* C23: an update that carries the ticket's current categoryId, or whose
\* ticket already has an assignee, never sets assignedTo through category
\* assignment: assignedTo is then the body's value, or stays as it was
C23_AutoAssignOnlyOnCategoryChange ==
    [][(/\ UpdateStep
        /\ \/ resp'.data.categoryId = TicketBefore.categoryId
           \/ TicketBefore.assignedTo # None)
       => TicketAfter.assignedTo = IF resp'.data.assignedTo # Absent
                                   THEN resp'.data.assignedTo
                                   ELSE TicketBefore.assignedTo]_vars

\* C25: an update writes exactly one activity-log row, with the old and the
\* new value, for each of the six fields whose stored value differs after
\* the update, and none for a field that is unchanged or absent
C25_OneLogRowPerChangedField ==
    [][UpdateStep
       => \A k \in 1..Len(LoggedFields) :
              LET f == LoggedFields[k]
                  rows == {i \in 1..Len(resp'.changes) : resp'.changes[i].field = f}
              IN  IF TicketBefore[f] # TicketAfter[f]
                  THEN /\ Cardinality(rows) = 1
                       /\ \A i \in rows :
                              /\ resp'.changes[i].oldValue = TicketBefore[f]
                              /\ resp'.changes[i].newValue = TicketAfter[f]
                  ELSE rows = {}]_vars

\* C28: the assignee of a ticket is null or a user with a membership in the
\* ticket's organization
C28_AssigneeIsMember ==
    \A t \in tickets :
        \/ t.assignedTo = None
        \/ \E i \in 1..Len(memberships) :
               /\ memberships[i].userId = t.assignedTo
               /\ memberships[i].organizationId = t.organizationId

\* C29: an assignedTo supplied by the body of an update is the value stored,
\* also when the body carries a categoryId with assignments and the ticket
\* has no assignee
C29_ExplicitAssigneeStored ==
    (/\ resp.route = "UpdateTicket"
     /\ resp.status = 200
     /\ resp.ticketId # 0
     /\ resp.data.assignedTo # Absent)
    => \A t \in tickets : t.id = resp.ticketId => t.assignedTo = resp.data.assignedTo

\* no activity_logs or notifications row names a ticket that is not stored
NoOrphanRow ==
    /\ \A id \in activityLogs : \E t \in tickets : t.id = id
    /\ \A n \in notifications : \E t \in tickets : t.id = n.ticketId

\* a row that this step writes names a ticket that was stored before the step
WrittenAfterCommit ==
    /\ \A id \in activityLogs' \ activityLogs : \E t \in tickets : t.id = id
    /\ \A n \in notifications' \ notifications : \E t \in tickets : t.id = n.ticketId

C26_SlugNamedTenantWins ==
    (/\ rPhase \in {3, 8}
     /\ rs2.status = 0
     /\ rs2.organization # None
     /\ rq.token.organizationId # None)
    => /\ rs2.organizationId = rs2.organization
       /\ rPhase = 8 =>
              \A chain \in {OrgSlugAdminChain(rq)} :
                  chain.sentBy = None => chain.ctx.organizationId = chain.ctx.organization

\* the routes guarded by identifyOrganization alone
IdentifyOnlyRoutes ==
    {"CreatePublicTicket", "TrackTicket", "UploadPublicAttachment", "ListCategories",
     "ListStatuses"}

\* C27: on the routes guarded by identifyOrganization alone, a request that
\* leaves req.organizationId unset is rejected, and neither reads nor
\* writes rows of any tenant
C27_NoHandlerWithoutTenant ==
    (resp.route \in IdentifyOnlyRoutes /\ resp.organizationId = None)
    => /\ resp.status >= 400
       /\ resp.touched = {}
       /\ ~resp.wrote

\* no two connections hold a successful verify-otp response for the same
\* login_otps row
OneLoginPerOtp ==
    \A p, q \in Connections :
        (/\ p # q
         /\ inflight[p].pc = "answered" /\ inflight[p].route = "VerifyOtp"
         /\ inflight[p].status = 200
         /\ inflight[q].pc = "answered" /\ inflight[q].route = "VerifyOtp"
         /\ inflight[q].status = 200)
        => inflight[p].otpId # inflight[q].otpId

\* once no request-otp is between its deleteMany and its create, an email
\* has at most one OTP that verify-otp accepts
EarlierOtpsRejected ==
    (\A p \in Connections : inflight[p].pc # "createOtp")
    => \A i, j \in 1..Len(loginOTPs) :
           (/\ i # j
            /\ loginOTPs[i].email = loginOTPs[j].email
            /\ ~loginOTPs[i].used /\ ~loginOTPs[i].expired)
           => (loginOTPs[j].used \/ loginOTPs[j].expired)

\* C30: a login OTP yields at most one successful verify-otp response, one
\* after the other or at the same time, and after a new request-otp every
\* earlier OTP of the email is rejected
C30_OneLoginPerOtp == OneLoginPerOtp /\ EarlierOtpsRejected

=============================================================================
